---- MODULE Spec2Model ----
(***************************************************************************)
(* Graphelix: the case workflow, SLA and deduplication core.               *)
(*                                                                         *)
(* Strings are sequences of one-character strings, so that trimming,       *)
(* lower-casing, URL parsing and query re-encoding are computed as the     *)
(* Python code computes them.  The relational store is modelled by its     *)
(* committed tables; every request works on its own pending write set,     *)
(* which a commit applies atomically or not at all.                        *)
(***************************************************************************)
EXTENDS Integers, Sequences, FiniteSets, TLC

\* ------------------------------------------------------------------------
\* Strings
\* ------------------------------------------------------------------------

\* The characters of the model, in code-point order (Python compares str
\* values by code point).
Alphabet ==
  <<
    " ", "#", "%", "&", "+", "-", ".", "/", "0", "1", "2", "3", "4",
    "5", "6", "7", "8", "9", ":", "=", "?", "A", "B", "C", "D", "E",
    "F", "G", "H", "I", "J", "K", "L", "M", "N", "O", "P", "Q", "R",
    "S", "T", "U", "V", "W", "X", "Y", "Z", "_", "a", "b", "c", "d",
    "e", "f", "g", "h", "i", "j", "k", "l", "m", "n", "o", "p", "q",
    "r", "s", "t", "u", "v", "w", "x", "y", "z">>

UpperCase ==
  <<"A", "B", "C", "D", "E", "F", "G", "H", "I", "J", "K", "L", "M", "N", "O", "P", "Q", "R", "S", "T", "U", "V", "W", "X", "Y", "Z">>

LowerCase ==
  <<"a", "b", "c", "d", "e", "f", "g", "h", "i", "j", "k", "l", "m", "n", "o", "p", "q", "r", "s", "t", "u", "v", "w", "x", "y", "z">>

\* The two hexadecimal digits of each character's code point, in the order
\* of Alphabet ("%2F" is '/').
PercentCodes ==
  <<
    <<"2", "0">>, <<"2", "3">>, <<"2", "5">>, <<"2", "6">>, <<"2", "B">>, <<"2", "D">>, <<"2", "E">>, <<"2", "F">>,
    <<"3", "0">>, <<"3", "1">>, <<"3", "2">>, <<"3", "3">>, <<"3", "4">>, <<"3", "5">>, <<"3", "6">>, <<"3", "7">>,
    <<"3", "8">>, <<"3", "9">>, <<"3", "A">>, <<"3", "D">>, <<"3", "F">>, <<"4", "1">>, <<"4", "2">>, <<"4", "3">>,
    <<"4", "4">>, <<"4", "5">>, <<"4", "6">>, <<"4", "7">>, <<"4", "8">>, <<"4", "9">>, <<"4", "A">>, <<"4", "B">>,
    <<"4", "C">>, <<"4", "D">>, <<"4", "E">>, <<"4", "F">>, <<"5", "0">>, <<"5", "1">>, <<"5", "2">>, <<"5", "3">>,
    <<"5", "4">>, <<"5", "5">>, <<"5", "6">>, <<"5", "7">>, <<"5", "8">>, <<"5", "9">>, <<"5", "A">>, <<"5", "F">>,
    <<"6", "1">>, <<"6", "2">>, <<"6", "3">>, <<"6", "4">>, <<"6", "5">>, <<"6", "6">>, <<"6", "7">>, <<"6", "8">>,
    <<"6", "9">>, <<"6", "A">>, <<"6", "B">>, <<"6", "C">>, <<"6", "D">>, <<"6", "E">>, <<"6", "F">>, <<"7", "0">>,
    <<"7", "1">>, <<"7", "2">>, <<"7", "3">>, <<"7", "4">>, <<"7", "5">>, <<"7", "6">>, <<"7", "7">>, <<"7", "8">>,
    <<"7", "9">>, <<"7", "A">>>>

\* ord(c)
Ord(c) ==
  CHOOSE i \in 1..Len(Alphabet) : Alphabet[i] = c

\* str.lower() on one character
LowerChar(c) ==
  IF \E i \in 1..Len(UpperCase) : UpperCase[i] = c
  THEN LowerCase[CHOOSE i \in 1..Len(UpperCase) : UpperCase[i] = c]
  ELSE c

\* str.upper() on one character
UpperChar(c) ==
  IF \E i \in 1..Len(LowerCase) : LowerCase[i] = c
  THEN UpperCase[CHOOSE i \in 1..Len(LowerCase) : LowerCase[i] = c]
  ELSE c

\* str.lower()
lower(s) ==
  [i \in 1..Len(s) |-> LowerChar(s[i])]

\* The characters str.strip() removes (the model's alphabet has the space).
Whitespace ==
  {" "}

\* str.strip()
strip(s) ==
  IF \A i \in 1..Len(s) : s[i] \in Whitespace
  THEN <<>>
  ELSE LET first == CHOOSE i \in 1..Len(s) :
                      s[i] \notin Whitespace /\ \A j \in 1..(i-1) : s[j] \in Whitespace
           last  == CHOOSE i \in 1..Len(s) :
                      s[i] \notin Whitespace /\ \A j \in (i+1)..Len(s) : s[j] \in Whitespace
       IN  SubSeq(s, first, last)

\* str.rstrip(c)
rstrip(s, c) ==
  IF \A i \in 1..Len(s) : s[i] = c
  THEN <<>>
  ELSE LET last == CHOOSE i \in 1..Len(s) :
                     s[i] # c /\ \A j \in (i+1)..Len(s) : s[j] = c
       IN  SubSeq(s, 1, last)

\* str.startswith(p)
startswith(s, p) ==
  Len(s) >= Len(p) /\ SubSeq(s, 1, Len(p)) = p

\* str.find over a set of characters: the first index i >= from with s[i] in
\* chars, or 0 when there is none.
find(s, chars, from) ==
  IF \E i \in from..Len(s) : s[i] \in chars
  THEN CHOOSE i \in from..Len(s) :
         s[i] \in chars /\ \A j \in from..(i-1) : s[j] \notin chars
  ELSE 0

\* str.split(c)
RECURSIVE split(_, _)
split(s, c) ==
  LET i == find(s, {c}, 1)
  IN  IF i = 0 THEN <<s>>
      ELSE <<SubSeq(s, 1, i-1)>> \o split(SubSeq(s, i+1, Len(s)), c)

\* a < b for str values
RECURSIVE StrLess(_, _)
StrLess(a, b) ==
  IF b = <<>> THEN FALSE
  ELSE IF a = <<>> THEN TRUE
  ELSE IF a[1] # b[1] THEN Ord(a[1]) < Ord(b[1])
  ELSE StrLess(Tail(a), Tail(b))

\* c * n
Rep(c, n) ==
  [i \in 1..n |-> c]

\* s with every character a replaced by b
Replace(s, a, b) ==
  [i \in 1..Len(s) |-> IF s[i] = a THEN b ELSE s[i]]

\* "sep".join(parts)
RECURSIVE join(_, _)
join(parts, sep) ==
  IF parts = <<>> THEN <<>>
  ELSE IF Len(parts) = 1 THEN parts[1]
  ELSE parts[1] \o sep \o join(Tail(parts), sep)


\* ------------------------------------------------------------------------
\* URL normalizer (app/services/normalization.py)
\* ------------------------------------------------------------------------

TRACKING_PARAMS ==
  { <<"u", "t", "m", "_", "s", "o", "u", "r", "c", "e">>,
    <<"u", "t", "m", "_", "m", "e", "d", "i", "u", "m">>,
    <<"u", "t", "m", "_", "c", "a", "m", "p", "a", "i", "g", "n">>,
    <<"u", "t", "m", "_", "t", "e", "r", "m">>,
    <<"u", "t", "m", "_", "c", "o", "n", "t", "e", "n", "t">>,
    <<"g", "c", "l", "i", "d">>,
    <<"g", "c", "l", "s", "r", "c">>,
    <<"d", "c", "l", "i", "d">>,
    <<"w", "b", "r", "a", "i", "d">>,
    <<"g", "b", "r", "a", "i", "d">>,
    <<"f", "b", "c", "l", "i", "d">>,
    <<"f", "b", "a", "d", "i", "d">>,
    <<"m", "s", "c", "l", "k", "i", "d">>,
    <<"r", "e", "f">>,
    <<"r", "e", "f", "e", "r", "r", "e", "r">>,
    <<"s", "o", "u", "r", "c", "e">>,
    <<"s", "e", "s", "s", "i", "o", "n", "i", "d">>,
    <<"s", "i", "d">>,
    <<"_", "t">>,
    <<"t", "i", "m", "e", "s", "t", "a", "m", "p">>,
    <<"t", "s">>,
    <<"v">>,
    <<"v", "e", "r", "s", "i", "o", "n">>,
    <<"c", "a", "c", "h", "e">>,
    <<"n", "o", "c", "a", "c", "h", "e">> }

HttpPrefix ==
  <<"h", "t", "t", "p", ":", "/", "/">>

HttpsPrefix ==
  <<"h", "t", "t", "p", "s", ":", "/", "/">>

\* The characters a URL scheme may hold (urllib.parse.scheme_chars, within the
\* alphabet).
SchemeChars ==
  {Alphabet[i] : i \in 1..Len(Alphabet)} \ {" ", "#", "%", "&", "/", ":", "=", "?", "_"}

\* urllib.parse.urlparse: scheme, netloc, path, query and fragment of a URL,
\* split off in that order as urlsplit does.  (The alphabet has no ';', so the
\* path parameters are always empty.)
split_query(scheme, netloc, rest, fragment) ==
  LET qmark == find(rest, {"?"}, 1)
  IN  [scheme   |-> scheme,
       netloc   |-> netloc,
       path     |-> IF qmark = 0 THEN rest ELSE SubSeq(rest, 1, qmark-1),
       query    |-> IF qmark = 0 THEN <<>> ELSE SubSeq(rest, qmark+1, Len(rest)),
       fragment |-> fragment]

split_fragment(scheme, netloc, rest) ==
  LET hash == find(rest, {"#"}, 1)
  IN  split_query(scheme, netloc,
                  IF hash = 0 THEN rest ELSE SubSeq(rest, 1, hash-1),
                  IF hash = 0 THEN <<>> ELSE SubSeq(rest, hash+1, Len(rest)))

split_netloc(scheme, rest) ==
  LET delim == IF startswith(rest, <<"/", "/">>) THEN find(rest, {"/", "?", "#"}, 3) ELSE 0
  IN  split_fragment(scheme,
                     IF ~startswith(rest, <<"/", "/">>) THEN <<>>
                     ELSE IF delim = 0 THEN SubSeq(rest, 3, Len(rest))
                     ELSE SubSeq(rest, 3, delim-1),
                     IF ~startswith(rest, <<"/", "/">>) THEN rest
                     ELSE IF delim = 0 THEN <<>>
                     ELSE SubSeq(rest, delim, Len(rest)))

has_scheme(url, colon) ==
  /\ colon > 1
  /\ LowerChar(url[1]) \in {LowerCase[i] : i \in 1..Len(LowerCase)}
  /\ \A i \in 1..(colon-1) : url[i] \in SchemeChars

split_scheme(url, colon) ==
  IF has_scheme(url, colon)
  THEN split_netloc(lower(SubSeq(url, 1, colon-1)), SubSeq(url, colon+1, Len(url)))
  ELSE split_netloc(<<>>, url)

urlparse(url) ==
  split_scheme(url, find(url, {":"}, 1))

\* urllib.parse.unquote: every %XX escape of a character of the alphabet is
\* replaced by that character; anything else is kept as written.
RECURSIVE unquote(_)
unquote(s) ==
  IF s = <<>> THEN <<>>
  ELSE IF /\ s[1] = "%"
          /\ Len(s) >= 3
          /\ \E i \in 1..Len(PercentCodes) :
                PercentCodes[i] = <<UpperChar(s[2]), UpperChar(s[3])>>
       THEN <<Alphabet[CHOOSE i \in 1..Len(PercentCodes) :
                         PercentCodes[i] = <<UpperChar(s[2]), UpperChar(s[3])>>]>>
              \o unquote(SubSeq(s, 4, Len(s)))
       ELSE <<s[1]>> \o unquote(Tail(s))

\* urllib.parse.unquote_plus: '+' stands for a space.
unquote_plus(s) ==
  unquote(Replace(s, "+", " "))

\* The characters quote_plus leaves as they are (the alphabet has no '~').
SafeChars ==
  {Alphabet[i] : i \in 1..Len(Alphabet)} \ {" ", "#", "%", "&", "+", "/", ":", "=", "?"}

\* urllib.parse.quote_plus: a space is written '+', any other unsafe character
\* as its %XX escape.
RECURSIVE quote_plus(_)
quote_plus(s) ==
  IF s = <<>> THEN <<>>
  ELSE (IF s[1] \in SafeChars THEN <<s[1]>>
        ELSE IF s[1] = " " THEN <<"+">>
        ELSE <<"%">> \o PercentCodes[Ord(s[1])])
       \o quote_plus(Tail(s))

\* The name=value pairs of a query string, in order, as parse_qs keeps them
\* with keep_blank_values=False: a field without '=' or with an empty value is
\* dropped.
RECURSIVE QueryPairs(_)
QueryPairs(fields) ==
  IF fields = <<>> THEN <<>>
  ELSE LET f    == fields[1]
           eq   == find(f, {"="}, 1)
           name == IF eq = 0 THEN f ELSE SubSeq(f, 1, eq-1)
           val  == IF eq = 0 THEN <<>> ELSE SubSeq(f, eq+1, Len(f))
       IN  (IF f = <<>> \/ val = <<>>
            THEN <<>>
            ELSE << <<unquote_plus(name), unquote_plus(val)>> >>)
           \o QueryPairs(Tail(fields))

\* urllib.parse.parse_qs(query, keep_blank_values=False), as the list of its
\* (name, value) pairs; the dict groups the values of one name in this order.
parse_qs(query) ==
  QueryPairs(split(query, "&"))

\* sorted(names): the names of a set in ascending str order.
RECURSIVE SortedNames(_)
SortedNames(names) ==
  IF names = {} THEN <<>>
  ELSE LET least == CHOOSE n \in names : \A m \in names \ {n} : StrLess(n, m)
       IN  <<least>> \o SortedNames(names \ {least})

\* The pairs of one name, in their order of appearance.
RECURSIVE PairsOf(_, _)
PairsOf(pairs, name) ==
  IF pairs = <<>> THEN <<>>
  ELSE (IF pairs[1][1] = name THEN <<pairs[1]>> ELSE <<>>) \o PairsOf(Tail(pairs), name)

\* urlencode(sorted(filtered_params.items()), doseq=True): the tracking
\* parameters removed, the rest grouped by name, names ascending.
RECURSIVE EncodeSorted(_, _)
EncodeSorted(names, pairs) ==
  IF names = <<>> THEN <<>>
  ELSE LET mine == PairsOf(pairs, names[1])
       IN  [i \in 1..Len(mine) |-> quote_plus(mine[i][1]) \o <<"=">> \o quote_plus(mine[i][2])]
           \o EncodeSorted(Tail(names), pairs)

sorted_query(query) ==
  IF query = <<>> THEN <<>>
  ELSE LET pairs == parse_qs(query)
           kept  == {pairs[i][1] : i \in 1..Len(pairs)}
                      \ {n \in {pairs[i][1] : i \in 1..Len(pairs)} : lower(n) \in TRACKING_PARAMS}
       IN  join(EncodeSorted(SortedNames(kept), pairs), <<"&">>)

\* urllib.parse.urlunparse((scheme, netloc, path, '', query, ''))
urlunparse(scheme, netloc, path, query) ==
  LET url1 == IF netloc # <<>> \/ (scheme # <<>> /\ ~startswith(path, <<"/", "/">>))
              THEN <<"/", "/">> \o netloc
                     \o (IF path # <<>> /\ path[1] # "/" THEN <<"/">> \o path ELSE path)
              ELSE path
      url2 == IF scheme # <<>> THEN scheme \o <<":">> \o url1 ELSE url1
  IN  IF query # <<>> THEN url2 \o <<"?">> \o query ELSE url2

\* URLNormalizer.normalize_url: the scheme added when there is none, the URL
\* lowercased and parsed, the path without its trailing slashes, the query
\* filtered and sorted, the fragment dropped.
with_scheme(url) ==
  IF startswith(lower(url), HttpPrefix) \/ startswith(lower(url), HttpsPrefix)
  THEN url
  ELSE HttpsPrefix \o url

normalized_path(path) ==
  IF path # <<"/">> THEN rstrip(path, "/") ELSE <<"/">>

rebuilt(parsed) ==
  urlunparse(parsed.scheme, parsed.netloc, normalized_path(parsed.path),
             sorted_query(parsed.query))

normalize_stripped(url) ==
  IF url = <<>> THEN <<>> ELSE rebuilt(urlparse(lower(with_scheme(url))))

normalize_url(url) ==
  normalize_stripped(strip(url))

\* hashlib.sha256(...).hexdigest(): a digest is determined by its input and
\* distinct inputs have distinct digests (collision freedom).
sha256(s) ==
  <<"sha256", s>>

\* URLNormalizer.compute_url_hash; "" is the empty sequence.
compute_url_hash(normalized_url) ==
  IF normalized_url = <<>> THEN <<>> ELSE sha256(normalized_url)

\* The length of a SHA-256 hex digest.
HashLen ==
  64

HexDigits ==
  {"0", "1", "2", "3", "4", "5", "6", "7", "8", "9", "a", "b", "c", "d", "e", "f"}

\* URLNormalizer.compute_file_hash
compute_file_hash(file_hash) ==
  IF file_hash = <<>> THEN <<>>
  ELSE LET cleaned == lower(strip(file_hash))
       IN  IF Len(cleaned) = HashLen /\ \A i \in 1..Len(cleaned) : cleaned[i] \in HexDigits
           THEN cleaned
           ELSE <<>>

\* URLNormalizer.process_submission
with_url(result, url, url_normalized) ==
  [result EXCEPT !.url            = url,
                 !.url_normalized = url_normalized,
                 !.url_hash       = compute_url_hash(url_normalized),
                 !.has_content    = TRUE]

processed_url(result, url) ==
  IF url # <<>> /\ strip(url) # <<>>
  THEN with_url(result, strip(url), normalize_url(url))
  ELSE result

\* A process_submission for which any file hash given counts as content.
with_file_counts_invalid(result, file_hash) ==
  [result EXCEPT !.file_hash   = file_hash,
                 !.has_content = TRUE]

with_file(result, file_hash) ==
  [result EXCEPT !.file_hash   = file_hash,
                 !.has_content = IF file_hash # <<>> THEN TRUE ELSE @]

processed_file(result, file_hash) ==
  IF file_hash # <<>> /\ strip(file_hash) # <<>>
  THEN with_file(result, compute_file_hash(file_hash))
  ELSE result

process_submission(url, file_hash) ==
  processed_file(
    processed_url([url |-> url, url_normalized |-> <<>>, url_hash |-> <<>>,
                   file_hash |-> <<>>, has_content |-> FALSE], url),
    file_hash)

\* ------------------------------------------------------------------------
\* Users, case states, the transition table and the SLA table
\* ------------------------------------------------------------------------

\* UserRole: the value of each role is its name, a str.
VICTIM ==
  <<"v", "i", "c", "t", "i", "m">>

OFFICER ==
  <<"o", "f", "f", "i", "c", "e", "r">>

ADMIN ==
  <<"a", "d", "m", "i", "n">>

\* The accounts of the model: a victim, two officers and an admin.
Users ==
  { [id |-> "v1", role |-> VICTIM],
    [id |-> "o1", role |-> OFFICER],
    [id |-> "o2", role |-> OFFICER],
    [id |-> "a1", role |-> ADMIN] }

\* A nullable user reference that is NULL.
NoUser ==
  ""

\* CaseState
SUBMITTED ==
  "submitted"

IN_REVIEW ==
  "in_review"

APPROVED ==
  "approved"

REJECTED ==
  "rejected"

ESCALATED ==
  "escalated"

MATCH_FOUND ==
  "match_found"

COMPLETED ==
  "completed"

CaseState ==
  {SUBMITTED, IN_REVIEW, APPROVED, REJECTED, ESCALATED, MATCH_FOUND, COMPLETED}

\* TRANSITIONS with a fourteenth row that reopens a completed case.
TRANSITIONS_with_reopen ==
  << [from_state |-> SUBMITTED,   to_state |-> IN_REVIEW,   required_role |-> OFFICER, auto_assign |-> TRUE],
     [from_state |-> SUBMITTED,   to_state |-> ESCALATED,   required_role |-> ADMIN,   auto_assign |-> FALSE],
     [from_state |-> IN_REVIEW,   to_state |-> APPROVED,    required_role |-> OFFICER, auto_assign |-> FALSE],
     [from_state |-> IN_REVIEW,   to_state |-> REJECTED,    required_role |-> OFFICER, auto_assign |-> FALSE],
     [from_state |-> IN_REVIEW,   to_state |-> MATCH_FOUND, required_role |-> OFFICER, auto_assign |-> FALSE],
     [from_state |-> IN_REVIEW,   to_state |-> ESCALATED,   required_role |-> OFFICER, auto_assign |-> FALSE],
     [from_state |-> ESCALATED,   to_state |-> APPROVED,    required_role |-> ADMIN,   auto_assign |-> FALSE],
     [from_state |-> ESCALATED,   to_state |-> REJECTED,    required_role |-> ADMIN,   auto_assign |-> FALSE],
     [from_state |-> ESCALATED,   to_state |-> IN_REVIEW,   required_role |-> ADMIN,   auto_assign |-> FALSE],
     [from_state |-> MATCH_FOUND, to_state |-> COMPLETED,   required_role |-> OFFICER, auto_assign |-> FALSE],
     [from_state |-> MATCH_FOUND, to_state |-> ESCALATED,   required_role |-> OFFICER, auto_assign |-> FALSE],
     [from_state |-> APPROVED,    to_state |-> COMPLETED,   required_role |-> OFFICER, auto_assign |-> FALSE],
     [from_state |-> REJECTED,    to_state |-> COMPLETED,   required_role |-> OFFICER, auto_assign |-> FALSE],
     [from_state |-> COMPLETED,   to_state |-> IN_REVIEW,   required_role |-> OFFICER, auto_assign |-> FALSE] >>

\* CaseWorkflowManager.TRANSITIONS
TRANSITIONS ==
  << [from_state |-> SUBMITTED,   to_state |-> IN_REVIEW,   required_role |-> OFFICER, auto_assign |-> TRUE],
     [from_state |-> SUBMITTED,   to_state |-> ESCALATED,   required_role |-> ADMIN,   auto_assign |-> FALSE],
     [from_state |-> IN_REVIEW,   to_state |-> APPROVED,    required_role |-> OFFICER, auto_assign |-> FALSE],
     [from_state |-> IN_REVIEW,   to_state |-> REJECTED,    required_role |-> OFFICER, auto_assign |-> FALSE],
     [from_state |-> IN_REVIEW,   to_state |-> MATCH_FOUND, required_role |-> OFFICER, auto_assign |-> FALSE],
     [from_state |-> IN_REVIEW,   to_state |-> ESCALATED,   required_role |-> OFFICER, auto_assign |-> FALSE],
     [from_state |-> ESCALATED,   to_state |-> APPROVED,    required_role |-> ADMIN,   auto_assign |-> FALSE],
     [from_state |-> ESCALATED,   to_state |-> REJECTED,    required_role |-> ADMIN,   auto_assign |-> FALSE],
     [from_state |-> ESCALATED,   to_state |-> IN_REVIEW,   required_role |-> ADMIN,   auto_assign |-> FALSE],
     [from_state |-> MATCH_FOUND, to_state |-> COMPLETED,   required_role |-> OFFICER, auto_assign |-> FALSE],
     [from_state |-> MATCH_FOUND, to_state |-> ESCALATED,   required_role |-> OFFICER, auto_assign |-> FALSE],
     [from_state |-> APPROVED,    to_state |-> COMPLETED,   required_role |-> OFFICER, auto_assign |-> FALSE],
     [from_state |-> REJECTED,    to_state |-> COMPLETED,   required_role |-> OFFICER, auto_assign |-> FALSE] >>

\* CaseWorkflowManager._transitions_map: the keys, and the entry of a key.
TransitionKeys ==
  {<<TRANSITIONS[i].from_state, TRANSITIONS[i].to_state>> : i \in 1..Len(TRANSITIONS)}

TransitionsMap ==
  [key \in TransitionKeys |->
     TRANSITIONS[CHOOSE i \in 1..Len(TRANSITIONS) :
                   /\ <<TRANSITIONS[i].from_state, TRANSITIONS[i].to_state>> = key
                   /\ \A j \in (i+1)..Len(TRANSITIONS) :
                        <<TRANSITIONS[j].from_state, TRANSITIONS[j].to_state>> # key]]

transitions_map(from_state, to_state) ==
  TransitionsMap[<<from_state, to_state>>]

\* SLA_CONFIG: hours to the deadline of each state that has one.
SlaSubmittedHours ==
  24

SlaInReviewHours ==
  72

SlaEscalatedHours ==
  48

SlaMatchFoundHours ==
  24

\* A state without an escalation target (escalation_state is None).
NoState ==
  ""

\* CaseWorkflowManager.SLA_CONFIG
SLA_CONFIG ==
  << [state |-> SUBMITTED,   sla_hours |-> SlaSubmittedHours,  escalation_state |-> ESCALATED],
     [state |-> IN_REVIEW,   sla_hours |-> SlaInReviewHours,   escalation_state |-> ESCALATED],
     [state |-> ESCALATED,   sla_hours |-> SlaEscalatedHours,  escalation_state |-> NoState],
     [state |-> MATCH_FOUND, sla_hours |-> SlaMatchFoundHours, escalation_state |-> ESCALATED] >>

\* CaseWorkflowManager._sla_map: the keys, and the entry of a key.
SlaStates ==
  {SLA_CONFIG[i].state : i \in 1..Len(SLA_CONFIG)}

sla_map(state) ==
  SLA_CONFIG[CHOOSE i \in 1..Len(SLA_CONFIG) :
               /\ SLA_CONFIG[i].state = state
               /\ \A j \in (i+1)..Len(SLA_CONFIG) : SLA_CONFIG[j].state # state]

\* A nullable timestamp that is NULL; a timestamp t is <<t>>.
NoTime ==
  <<>>

\* A calculate_sla_deadline that gives every SLA state the hours of SUBMITTED.
calculate_sla_deadline_one_period(state, t) ==
  IF state \notin SlaStates THEN NoTime ELSE <<t + SlaSubmittedHours>>

\* CaseWorkflowManager.calculate_sla_deadline, at time t (in hours)
calculate_sla_deadline(state, t) ==
  IF state \notin SlaStates THEN NoTime ELSE <<t + sla_map(state).sla_hours>>

\* ------------------------------------------------------------------------
\* The store and the requests in flight
\* ------------------------------------------------------------------------

VARIABLES
  cases,             \* table cases: case id -> row
  dedup_index,       \* table dedup_index: a set of rows
  idempotency_keys,  \* table idempotency_keys: a set of rows
  case_events,       \* table case_events: the rows in commit order
  next_uuid,         \* the ids handed out so far (uuid4 never repeats)
  now,               \* datetime.utcnow(), in hours
  pc,                \* where each submit request stands
  req,               \* the arguments of each submit request
  session,           \* the uncommitted writes of each request's AsyncSession
  result,            \* what each finished submit request returned or raised
  started,           \* how many submit requests have been made
  calls,             \* the finished submit requests, in the order they answered
  last_transition,   \* the outcome of the latest transition_case call
  automation,        \* the CaseAutomationService: its flag, its cache, its three loops
  normalizer,        \* the latest URLNormalizer call: its argument and what it returned
  users              \* table users: the rows in insertion order

vars ==
  <<cases, dedup_index, idempotency_keys, case_events, next_uuid, now,
    pc, req, session, result, started, calls, last_transition, automation, normalizer, users>>

\* The request slots: at most this many submit requests are in flight at once.
Slots ==
  <<"r1", "r2", "r3">>

Requests ==
  {Slots[i] : i \in 1..Len(Slots)}

\* How many submit requests a run makes.
MaxSubmits ==
  3

NoRequest ==
  [submitter |-> [id |-> NoUser, role |-> <<>>], url |-> <<>>, file_hash |-> <<>>,
   idempotency_key |-> ""]

NoResult ==
  [case_id |-> 0, is_new |-> FALSE, error |-> "", conflicts |-> {}]

\* An AsyncSession with nothing added to it.
EmptySession ==
  [cases |-> <<>>, dedup |-> {}, events |-> <<>>, idem |-> {}, case_id |-> 0, is_new |-> FALSE]

NoTransition ==
  [case_id |-> 0, from_state |-> NoState, to_state |-> NoState, actor |-> NoUser,
   ok |-> FALSE, reason |-> ""]

\* The three background tasks of the service.
Tasks ==
  {"sla_monitor_task", "escalation_task", "assignment_task"}

\* The system user once ensure_system_user has fetched or created it.
SystemUser ==
  [id |-> "system", role |-> ADMIN]

\* The table users: the accounts, and the system user an earlier run of the
\* service has created.
UserRows ==
  <<[id |-> "v1", role |-> VICTIM], [id |-> "o1", role |-> OFFICER],
    [id |-> "o2", role |-> OFFICER], [id |-> "a1", role |-> ADMIN], SystemUser>>

\* escalate_overdue_case has not returned in this iteration.
NoReturn ==
  [case_id |-> 0, escalated |-> FALSE]

\* CaseAutomationService.__init__: not running, no system user cached, no
\* task created. pc is where each task stands, overdue_cases and
\* unassigned_cases are the rows an iteration in flight has loaded, returned
\* is what the latest escalate_overdue_case call of the iteration returned,
\* stale_escalated are the rows the latest query of escalation_task returned,
\* failed tells whether the task's latest iteration ended in its
\* `except Exception` handler. earlier holds the tasks created by the start()
\* calls before the latest one, oldest first: where each task stands and
\* whether that start() call has returned.
NoAutomation ==
  [running          |-> FALSE,
   system_user      |-> NoUser,
   pc               |-> [t \in Tasks |-> "not_started"],
   overdue_cases    |-> <<>>,
   unassigned_cases |-> <<>>,
   returned         |-> NoReturn,
   stale_escalated  |-> <<>>,
   failed           |-> [t \in Tasks |-> FALSE],
   earlier          |-> <<>>]

\* No URL has been normalized yet.
NoNormalization ==
  [url |-> <<>>, url_normalized |-> <<>>, url_hash |-> <<>>]

Init ==
  /\ cases = <<>>
  /\ dedup_index = {}
  /\ idempotency_keys = {}
  /\ case_events = <<>>
  /\ next_uuid = 1
  /\ now = 0
  /\ pc = [p \in Requests |-> "idle"]
  /\ req = [p \in Requests |-> NoRequest]
  /\ session = [p \in Requests |-> EmptySession]
  /\ result = [p \in Requests |-> NoResult]
  /\ started = 0
  /\ calls = <<>>
  /\ last_transition = NoTransition
  /\ automation = NoAutomation
  /\ normalizer = NoNormalization
  /\ users = UserRows

\* ------------------------------------------------------------------------
\* The inputs of the model
\* ------------------------------------------------------------------------

UrlA ==
  <<"h", "t", "t", "p", "s", ":", "/", "/", "x", "/", "a">>

UrlA2 ==
  <<"X", "/", "a", "/", "?", "r", "e", "f", "=", "1">>

UrlB ==
  <<"x", "/", "b">>

BlankUrl ==
  <<" ">>

FileF ==
  Rep("f", HashLen)

FileF2 ==
  <<" ">> \o Rep("F", HashLen)

FileBad ==
  Rep("g", HashLen)

Victim1 ==
  CHOOSE u \in Users : u.id = "v1"

Officer1 ==
  CHOOSE u \in Users : u.id = "o1"

Officer2 ==
  CHOOSE u \in Users : u.id = "o2"

Admin1 ==
  CHOOSE u \in Users : u.id = "a1"

FileE ==
  Rep("e", HashLen)

\* The contents a request of the model may carry: (url, file_hash) as the
\* caller spells them.  UrlA and UrlA2 normalize to one URL, FileF and FileF2
\* to one hash; BlankUrl and FileBad are no content.
Contents ==
  { [url |-> u, file_hash |-> f] :
      u \in {<<>>, UrlA, UrlA2, UrlB, BlankUrl}, f \in {<<>>, FileF, FileF2, FileE, FileBad} }

\* ------------------------------------------------------------------------
\* Deduplication service (app/services/deduplication.py)
\* ------------------------------------------------------------------------

\* check_existing_case that takes any stored case for a match, whatever kind
\* of content it has.
check_existing_case_ignores_kind(url_hash, file_hash) ==
  IF url_hash = <<>> /\ file_hash = <<>> THEN {}
  ELSE {id \in DOMAIN cases : cases[id].url_hash # <<>> \/ cases[id].file_hash # <<>>}

\* check_existing_case with the query on the URL hash only.
check_existing_case_url_only(url_hash, file_hash) ==
  IF url_hash = <<>> /\ file_hash = <<>> THEN {}
  ELSE {id \in DOMAIN cases : url_hash # <<>> /\ cases[id].url_hash = url_hash}

\* DeduplicationService.check_existing_case: the rows the query selects.
check_existing_case(url_hash, file_hash) ==
  IF url_hash = <<>> /\ file_hash = <<>> THEN {}
  ELSE {id \in DOMAIN cases :
          \/ (url_hash # <<>> /\ cases[id].url_hash = url_hash)
          \/ (file_hash # <<>> /\ cases[id].file_hash = file_hash)}

\* check_idempotency_key that never finds a key.
check_idempotency_key_never_found(idempotency_key) ==
  {}

\* DeduplicationService.check_idempotency_key: the case ids bound to the key
\* (none, or the one the primary key allows).
check_idempotency_key(idempotency_key) ==
  IF idempotency_key = "" THEN {}
  ELSE {r.case_id : r \in {k \in idempotency_keys : k.key = idempotency_key}}

\* Case(...) as create_case builds it; state, created_at and updated_at take
\* their column defaults.
new_case(id, submitter, processed) ==
  [id                  |-> id,
   submitter_id        |-> submitter.id,
   url                 |-> processed.url,
   url_hash            |-> processed.url_hash,
   file_hash           |-> processed.file_hash,
   state               |-> SUBMITTED,
   assigned_officer_id |-> NoUser,
   created_at          |-> now,
   updated_at          |-> now,
   due_by              |-> calculate_sla_deadline(SUBMITTED, now)]

\* _create_dedup_entries with one row for the whole case.
create_dedup_entries_one_row(case) ==
  {[case_id |-> case.id, url_hash |-> case.url_hash, file_hash |-> case.file_hash]}

\* DeduplicationService._create_dedup_entries
create_dedup_entries(case) ==
  (IF case.url_hash # <<>>
   THEN {[case_id |-> case.id, url_hash |-> case.url_hash, file_hash |-> <<>>]} ELSE {})
  \cup
  (IF case.file_hash # <<>>
   THEN {[case_id |-> case.id, url_hash |-> <<>>, file_hash |-> case.file_hash]} ELSE {})

\* DeduplicationService._create_submission_event
create_submission_event(case, submitter) ==
  [case_id |-> case.id, actor_id |-> submitter.id, actor_role |-> submitter.role,
   action |-> "submitted", from_state |-> NoState, to_state |-> NoState]

\* DeduplicationService._create_link_event
create_link_event(case_id, submitter) ==
  [case_id |-> case_id, actor_id |-> submitter.id, actor_role |-> submitter.role,
   action |-> "linked_submission", from_state |-> NoState, to_state |-> NoState]

\* DeduplicationService._store_idempotency_key
store_idempotency_key(key, case_id) ==
  IF key = "" THEN {} ELSE {[key |-> key, case_id |-> case_id]}

\* unique_violations with dedup_index.file_hash declared without unique=True.
unique_violations_file_hash_not_unique(s) ==
  (IF \E d \in s.dedup : d.url_hash # <<>> /\ \E e \in dedup_index : e.url_hash = d.url_hash
   THEN {"dedup_index.url_hash"} ELSE {})
  \cup
  (IF \E k \in s.idem : \E e \in idempotency_keys : e.key = k.key
   THEN {"idempotency_keys.key"} ELSE {})

\* The constraints a flush of the session's rows violates against the
\* committed tables: dedup_index.url_hash and dedup_index.file_hash are unique
\* (NULLs apart), idempotency_keys.key is the primary key.
unique_violations(s) ==
  (IF \E d \in s.dedup : d.url_hash # <<>> /\ \E e \in dedup_index : e.url_hash = d.url_hash
   THEN {"dedup_index.url_hash"} ELSE {})
  \cup
  (IF \E d \in s.dedup : d.file_hash # <<>> /\ \E e \in dedup_index : e.file_hash = d.file_hash
   THEN {"dedup_index.file_hash"} ELSE {})
  \cup
  (IF \E k \in s.idem : \E e \in idempotency_keys : e.key = k.key
   THEN {"idempotency_keys.key"} ELSE {})

\* The four tables after the session's rows are committed.
committed(s) ==
  [cases            |-> IF s.cases = <<>> THEN cases
                        ELSE [id \in DOMAIN cases \cup {s.cases[1].id} |->
                                IF id = s.cases[1].id THEN s.cases[1] ELSE cases[id]],
   dedup_index      |-> dedup_index \cup s.dedup,
   idempotency_keys |-> idempotency_keys \cup s.idem,
   case_events      |-> case_events \o s.events]

\* rolled_back with the flushed Case row surviving the failed commit (as if
\* flush() had committed it).
rolled_back_keeps_flushed_case(s) ==
  [cases            |-> IF s.cases = <<>> THEN cases
                        ELSE [id \in DOMAIN cases \cup {s.cases[1].id} |->
                                IF id = s.cases[1].id THEN s.cases[1] ELSE cases[id]],
   dedup_index      |-> dedup_index,
   idempotency_keys |-> idempotency_keys,
   case_events      |-> case_events]

\* The four tables after the session is closed without a commit: the
\* transaction is rolled back, the flushed rows with it.
rolled_back(s) ==
  [cases            |-> cases,
   dedup_index      |-> dedup_index,
   idempotency_keys |-> idempotency_keys,
   case_events      |-> case_events]

\* create_case's call of URLNormalizer.process_submission, tabulated once for
\* the contents the requests of the model carry.
ProcessedTable ==
  [c \in Contents |-> process_submission(c.url, c.file_hash)]

processed_submission(r) ==
  ProcessedTable[[url |-> r.url, file_hash |-> r.file_hash]]

\* after_validation with the idempotency-key lookup placed before the content
\* check.
after_validation_key_first(r) ==
  IF r.idempotency_key # "" THEN "check_idempotency_key"
  ELSE IF ~processed_submission(r).has_content THEN "ValueError"
  ELSE "check_existing_case"

\* create_case up to its first query: process_submission and the content
\* check, then where the request goes next.
after_validation(r) ==
  IF ~processed_submission(r).has_content THEN "ValueError"
  ELSE IF r.idempotency_key # "" THEN "check_idempotency_key"
  ELSE "check_existing_case"

\* A request calls create_case(submitter, url, file_hash, idempotency_key).
Submit(p, r) ==
  /\ pc[p] = "idle"
  /\ started < MaxSubmits
  /\ started' = started + 1
  /\ req' = [req EXCEPT ![p] = r]
  /\ IF after_validation(r) = "ValueError"
     THEN /\ pc' = [pc EXCEPT ![p] = "done"]
          /\ result' = [result EXCEPT ![p] = [NoResult EXCEPT !.error = "ValueError"]]
     ELSE /\ pc' = [pc EXCEPT ![p] = after_validation(r)]
          /\ UNCHANGED result
  /\ UNCHANGED <<cases, dedup_index, idempotency_keys, case_events, next_uuid, now,
                 session, calls, last_transition, automation, normalizer, users>>

\* create_case: the idempotency-key lookup.
CheckIdempotencyKey(p) ==
  /\ pc[p] = "check_idempotency_key"
  /\ LET existing == check_idempotency_key(req[p].idempotency_key)
     IN  IF existing # {}
         THEN /\ pc' = [pc EXCEPT ![p] = "done"]
              /\ result' = [result EXCEPT ![p] =
                              [NoResult EXCEPT !.case_id = CHOOSE id \in existing : TRUE]]
         ELSE /\ pc' = [pc EXCEPT ![p] = "check_existing_case"]
              /\ UNCHANGED result
  /\ UNCHANGED <<cases, dedup_index, idempotency_keys, case_events, next_uuid, now,
                 req, session, started, calls, last_transition, automation, normalizer, users>>

\* The rows create_case adds to its session when check_existing_case found
\* the case `existing`.
link_session(existing, r) ==
  [EmptySession EXCEPT
     !.events  = <<create_link_event(existing, r.submitter)>>,
     !.idem    = store_idempotency_key(r.idempotency_key, existing),
     !.case_id = existing,
     !.is_new  = FALSE]

\* The rows create_case adds to its session for a new case with id `id`.
create_session(id, r) ==
  LET case == new_case(id, r.submitter, processed_submission(r))
  IN  [EmptySession EXCEPT
         !.cases   = <<case>>,
         !.dedup   = create_dedup_entries(case),
         !.events  = <<create_submission_event(case, r.submitter)>>,
         !.idem    = store_idempotency_key(r.idempotency_key, id),
         !.case_id = id,
         !.is_new  = TRUE]

\* create_case: the existing-case query (scalar_one_or_none raises when the
\* query selects more than one row), then the rows of the link or of the new
\* case are added to the session and the new case is flushed.
CheckExistingCase(p) ==
  /\ pc[p] = "check_existing_case"
  /\ LET processed == processed_submission(req[p])
         existing  == check_existing_case(processed.url_hash, processed.file_hash)
     IN  IF Cardinality(existing) > 1
         THEN /\ pc' = [pc EXCEPT ![p] = "done"]
              /\ result' = [result EXCEPT ![p] =
                              [NoResult EXCEPT !.error = "MultipleResultsFound"]]
              /\ UNCHANGED <<session, next_uuid>>
         ELSE IF existing # {}
         THEN /\ pc' = [pc EXCEPT ![p] = "commit"]
              /\ session' = [session EXCEPT ![p] =
                               link_session(CHOOSE id \in existing : TRUE, req[p])]
              /\ UNCHANGED <<result, next_uuid>>
         ELSE /\ pc' = [pc EXCEPT ![p] = "commit"]
              /\ session' = [session EXCEPT ![p] = create_session(next_uuid, req[p])]
              /\ next_uuid' = next_uuid + 1
              /\ UNCHANGED result
  /\ UNCHANGED <<cases, dedup_index, idempotency_keys, case_events, now,
                 req, started, calls, last_transition, automation, normalizer, users>>

\* create_case: db.commit().  The session's rows become visible together; if
\* one of them violates a unique constraint the commit raises IntegrityError
\* and the request's session is closed, which rolls the transaction back.
Commit(p) ==
  /\ pc[p] = "commit"
  /\ LET violated == unique_violations(session[p])
         after    == IF violated = {} THEN committed(session[p]) ELSE rolled_back(session[p])
     IN  /\ cases' = after.cases
         /\ dedup_index' = after.dedup_index
         /\ idempotency_keys' = after.idempotency_keys
         /\ case_events' = after.case_events
         /\ result' = [result EXCEPT ![p] =
                         IF violated = {}
                         THEN [NoResult EXCEPT !.case_id = session[p].case_id,
                                               !.is_new = session[p].is_new]
                         ELSE [NoResult EXCEPT !.error = "IntegrityError",
                                               !.conflicts = violated]]
  /\ pc' = [pc EXCEPT ![p] = "done"]
  /\ session' = [session EXCEPT ![p] = EmptySession]
  /\ UNCHANGED <<next_uuid, now, req, started, calls, last_transition, automation, normalizer, users>>

\* The request is answered: the caller has the result (or the error) and the
\* slot is free for another request.
Respond(p) ==
  /\ pc[p] = "done"
  /\ calls' = Append(calls,
       [submitter_id    |-> req[p].submitter.id,
        url             |-> req[p].url,
        url_hash        |-> processed_submission(req[p]).url_hash,
        file_hash       |-> processed_submission(req[p]).file_hash,
        idempotency_key |-> req[p].idempotency_key,
        case_id         |-> result[p].case_id,
        is_new          |-> result[p].is_new,
        error           |-> result[p].error])
  /\ pc' = [pc EXCEPT ![p] = "idle"]
  /\ req' = [req EXCEPT ![p] = NoRequest]
  /\ result' = [result EXCEPT ![p] = NoResult]
  /\ UNCHANGED <<cases, dedup_index, idempotency_keys, case_events, next_uuid, now,
                 session, started, last_transition, automation, normalizer, users>>

\* ------------------------------------------------------------------------
\* Workflow manager (app/workflow.py)
\* ------------------------------------------------------------------------

\* can_transition without its check of the assigned officer.
can_transition_without_lock(case, to_state, user) ==
  IF <<case.state, to_state>> \notin TransitionKeys
  THEN [allowed |-> FALSE, reason |-> "transition is not allowed"]
  ELSE IF StrLess(user.role, transitions_map(case.state, to_state).required_role)
  THEN [allowed |-> FALSE, reason |-> "user role insufficient"]
  ELSE [allowed |-> TRUE, reason |-> "description"]

\* CaseWorkflowManager.can_transition: (is_allowed, reason).  The role check
\* compares the roles' values, which are str.
can_transition(case, to_state, user) ==
  IF <<case.state, to_state>> \notin TransitionKeys
  THEN [allowed |-> FALSE, reason |-> "transition is not allowed"]
  ELSE IF StrLess(user.role, transitions_map(case.state, to_state).required_role)
  THEN [allowed |-> FALSE, reason |-> "user role insufficient"]
  ELSE IF /\ case.state = IN_REVIEW
          /\ case.assigned_officer_id # NoUser
          /\ case.assigned_officer_id # user.id
          /\ user.role # ADMIN
  THEN [allowed |-> FALSE, reason |-> "only the assigned officer or admin"]
  ELSE [allowed |-> TRUE, reason |-> "description"]

\* A listing without its check of the assigned officer.
is_available_without_lock(transition, case, user) ==
  /\ transition.from_state = case.state
  /\ ~StrLess(user.role, transition.required_role)

\* get_available_transitions: the tests a row of TRANSITIONS passes to be
\* listed.
is_available(transition, case, user) ==
  /\ transition.from_state = case.state
  /\ ~StrLess(user.role, transition.required_role)
  /\ ~(/\ case.state = IN_REVIEW
       /\ case.assigned_officer_id # NoUser
       /\ case.assigned_officer_id # user.id
       /\ user.role # ADMIN)

\* get_available_transitions: the loop over TRANSITIONS from row i on.
RECURSIVE available_from(_, _, _)
available_from(i, case, user) ==
  IF i > Len(TRANSITIONS) THEN <<>>
  ELSE (IF is_available(TRANSITIONS[i], case, user)
        THEN <<[to_state      |-> TRANSITIONS[i].to_state,
                description   |-> "description",
                required_role |-> TRANSITIONS[i].required_role]>>
        ELSE <<>>)
       \o available_from(i + 1, case, user)

\* CaseWorkflowManager.get_available_transitions(case, user)
get_available_transitions(case, user) ==
  available_from(1, case, user)

\* A transition_case that assigns the actor on every transition.
transitioned_always_assigns(case, to_state, user) ==
  LET new_deadline == calculate_sla_deadline(to_state, now)
  IN  [case EXCEPT
         !.state               = to_state,
         !.updated_at          = now,
         !.assigned_officer_id = user.id,
         !.due_by              = IF new_deadline # NoTime THEN new_deadline ELSE case.due_by]

\* The Case row as transition_case leaves it.
transitioned(case, to_state, user) ==
  LET transition   == transitions_map(case.state, to_state)
      new_deadline == calculate_sla_deadline(to_state, now)
  IN  [case EXCEPT
         !.state               = to_state,
         !.updated_at          = now,
         !.assigned_officer_id = IF transition.auto_assign /\ case.assigned_officer_id = NoUser
                                 THEN user.id ELSE case.assigned_officer_id,
         !.due_by              = IF new_deadline # NoTime THEN new_deadline ELSE case.due_by]

\* The CaseEvent transition_case adds.
state_change_event(case, to_state, user) ==
  [case_id |-> case.id, actor_id |-> user.id, actor_role |-> user.role,
   action |-> "STATE_CHANGE", from_state |-> case.state, to_state |-> to_state]

\* How many CaseEvent rows a run writes.
MaxEvents ==
  4

\* A transition_case that moves the case before it asks can_transition.
TransitionCase_state_set_before_check(id, to_state, user) ==
  /\ id \in DOMAIN cases
  /\ LET check == can_transition(cases[id], to_state, user)
     IN  /\ last_transition' =
               [case_id |-> id, from_state |-> cases[id].state, to_state |-> to_state,
                actor |-> user.id, ok |-> check.allowed, reason |-> check.reason]
         /\ IF check.allowed
            THEN /\ Len(case_events) < MaxEvents
                 /\ cases' = [cases EXCEPT ![id] = transitioned(cases[id], to_state, user)]
                 /\ case_events' = Append(case_events,
                                          state_change_event(cases[id], to_state, user))
            ELSE /\ cases' = [cases EXCEPT ![id].state = to_state]
                 /\ UNCHANGED case_events
  /\ UNCHANGED <<dedup_index, idempotency_keys, next_uuid, now,
                 pc, req, session, result, started, calls, automation, normalizer, users>>

\* CaseWorkflowManager.transition_case(case, to_state, user): raises
\* ValueError(reason) when can_transition refuses, else updates the case, adds
\* the event and commits.
TransitionCase(id, to_state, user) ==
  /\ id \in DOMAIN cases
  /\ LET check == can_transition(cases[id], to_state, user)
     IN  /\ last_transition' =
               [case_id |-> id, from_state |-> cases[id].state, to_state |-> to_state,
                actor |-> user.id, ok |-> check.allowed, reason |-> check.reason]
         /\ IF check.allowed
            THEN /\ Len(case_events) < MaxEvents
                 /\ cases' = [cases EXCEPT ![id] = transitioned(cases[id], to_state, user)]
                 /\ case_events' = Append(case_events,
                                          state_change_event(cases[id], to_state, user))
            ELSE UNCHANGED <<cases, case_events>>
  /\ UNCHANGED <<dedup_index, idempotency_keys, next_uuid, now,
                 pc, req, session, result, started, calls, automation, normalizer, users>>

\* ------------------------------------------------------------------------
\* The clock and the automation service
\* ------------------------------------------------------------------------

\* The clock advances by the shortest SLA period.
TickHours ==
  SlaSubmittedHours

\* How many times the clock advances in a run.
MaxTicks ==
  4

\* datetime.utcnow() moves on.
Tick ==
  /\ now < MaxTicks * TickHours
  /\ now' = now + TickHours
  /\ UNCHANGED <<cases, dedup_index, idempotency_keys, case_events, next_uuid,
                 pc, req, session, result, started, calls, last_transition, automation, normalizer, users>>

\* The where clause of get_overdue_cases whose deadline test is <=.
overdue_where_not_strict(case) ==
  /\ case.due_by # NoTime
  /\ case.due_by[1] <= now
  /\ case.state \in {SUBMITTED, IN_REVIEW, ESCALATED, MATCH_FOUND}

\* CaseWorkflowManager.get_overdue_cases: the where clause
overdue_where(case) ==
  /\ case.due_by # NoTime
  /\ case.due_by[1] < now
  /\ case.state \in {SUBMITTED, IN_REVIEW, ESCALATED, MATCH_FOUND}

\* CaseWorkflowManager.get_overdue_cases: the rows loaded, in id order
get_overdue_cases ==
  SelectSeq(cases, overdue_where)

\* An escalate_overdue_case that escalates from every state with an SLA entry.
escalation_state_of_every_entry(case) ==
  IF case.state \in SlaStates THEN ESCALATED ELSE NoState

\* escalate_overdue_case: sla_config.escalation_state, NoState when the
\* state has no SLA entry or the entry has no escalation state.
escalation_state(case) ==
  IF case.state \in SlaStates THEN sla_map(case.state).escalation_state ELSE NoState

\* The UPDATE a commit sends for an object loaded as `case` and changed to
\* `changed`: the columns whose value was changed, on the row as it is stored.
flushed(row, case, changed) ==
  [row EXCEPT
     !.state               = IF changed.state # case.state THEN changed.state ELSE @,
     !.updated_at          = IF changed.updated_at # case.updated_at
                             THEN changed.updated_at ELSE @,
     !.assigned_officer_id = IF changed.assigned_officer_id # case.assigned_officer_id
                             THEN changed.assigned_officer_id ELSE @,
     !.due_by              = IF changed.due_by # case.due_by THEN changed.due_by ELSE @]

SlaTask ==
  "sla_monitor_task"

EscalationTask ==
  "escalation_task"

AssignmentTask ==
  "assignment_task"

\* The variables the automation service leaves alone.
request_vars ==
  <<dedup_index, idempotency_keys, next_uuid, now, pc, req, session, result, started,
    calls, normalizer, users>>

\* CaseAutomationService.start(), called once: the flag is set and the three
\* tasks are created. (A call while running returns at once.)
Start ==
  /\ ~automation.running
  /\ \A t \in Tasks : automation.pc[t] = "not_started"
  /\ automation' = [automation EXCEPT !.running = TRUE,
                                      !.pc = [t \in Tasks |-> "loop"]]
  /\ UNCHANGED <<cases, case_events, last_transition>>
  /\ UNCHANGED request_vars

\* CaseAutomationService.stop()
Stop ==
  /\ automation.running
  /\ automation' = [automation EXCEPT !.running = FALSE]
  /\ UNCHANGED <<cases, case_events, last_transition>>
  /\ UNCHANGED request_vars

\* An sla_monitor_task whose loop is `while True`.
SlaBegin_while_true ==
  /\ automation.pc[SlaTask] \in {"loop", "sleep"}
  /\ automation' =
       [automation EXCEPT
          !.system_user   = SystemUser.id,
          !.overdue_cases = get_overdue_cases,
          !.returned      = NoReturn,
          !.pc[SlaTask]   = IF get_overdue_cases = <<>> THEN "sleep" ELSE "escalate"]
  /\ UNCHANGED <<cases, case_events, last_transition>>
  /\ UNCHANGED request_vars

\* ensure_system_user finds the system user: in the cache of the service, or
\* by its query for the row with the system email.
system_user_known ==
  \/ automation.system_user # NoUser
  \/ \E i \in DOMAIN users : users[i].id = SystemUser.id

\* ensure_system_user of task t, whose query found no system user: the User
\* is added and committed, and cached by the service. The email is unique: if
\* the row has been inserted since the query, the commit raises, and the
\* exception ends the iteration in the handler of the task's loop.
CreateSystemUser(t) ==
  /\ automation.pc[t] = "create_user"
  /\ IF \E i \in DOMAIN users : users[i].id = SystemUser.id
     THEN /\ automation' = [automation EXCEPT !.failed[t] = TRUE, !.pc[t] = "sleep"]
          /\ UNCHANGED users
     ELSE /\ users' = Append(users, SystemUser)
          /\ automation' = [automation EXCEPT !.system_user = SystemUser.id,
                                              !.pc[t] = "ensured"]
  /\ UNCHANGED <<cases, case_events, last_transition, dedup_index, idempotency_keys,
                 next_uuid, now, pc, req, session, result, started, calls, normalizer>>

\* sla_monitor_task at `while self.running`, on entry or when its sleep is
\* over: the loop ends, or an iteration begins, gets the system user and loads
\* the overdue cases; with none it commits and sleeps.
SlaBegin ==
  /\ automation.pc[SlaTask] \in {"loop", "sleep", "ensured"}
  /\ automation' =
       IF ~automation.running /\ automation.pc[SlaTask] # "ensured"
       THEN [automation EXCEPT !.pc[SlaTask] = "done"]
       ELSE IF ~system_user_known
       THEN [automation EXCEPT !.failed[SlaTask] = FALSE, !.pc[SlaTask] = "create_user"]
       ELSE [automation EXCEPT
               !.system_user   = SystemUser.id,
               !.overdue_cases = get_overdue_cases,
               !.returned      = NoReturn,
               !.failed[SlaTask] = FALSE,
               !.pc[SlaTask]   = IF get_overdue_cases = <<>> THEN "sleep" ELSE "escalate"]
  /\ UNCHANGED <<cases, case_events, last_transition>>
  /\ UNCHANGED request_vars

\* A sweep whose iteration ends when escalate_overdue_case did not escalate.
escalate_returned_stops_on_failure(escalated) ==
  [automation EXCEPT
     !.overdue_cases = IF escalated THEN Tail(@) ELSE <<>>,
     !.returned      = [case_id |-> Head(automation.overdue_cases).id, escalated |-> escalated],
     !.pc[SlaTask]   = IF escalated /\ Tail(automation.overdue_cases) # <<>>
                       THEN "escalate" ELSE "sleep"]

\* What the iteration holds once escalate_overdue_case has returned for the
\* first case of the batch: after the last case it commits and sleeps.
escalate_returned(escalated) ==
  [automation EXCEPT
     !.overdue_cases = Tail(@),
     !.returned      = [case_id |-> Head(automation.overdue_cases).id, escalated |-> escalated],
     !.pc[SlaTask]   = IF Tail(automation.overdue_cases) = <<>> THEN "sleep" ELSE "escalate"]

\* transition_case(case, to_state, system_user) as escalate_overdue_case
\* calls it, on the case as the iteration loaded it.
escalate_transition(case, to_state) ==
  LET check == can_transition(case, to_state, SystemUser)
  IN  /\ last_transition' =
            [case_id |-> case.id, from_state |-> case.state, to_state |-> to_state,
             actor |-> SystemUser.id, ok |-> check.allowed, reason |-> check.reason]
      /\ automation' = escalate_returned(check.allowed)
      /\ IF check.allowed
         THEN /\ Len(case_events) < MaxEvents
              /\ cases' = [cases EXCEPT ![case.id] =
                             flushed(@, case, transitioned(case, to_state, SystemUser))]
              /\ case_events' = Append(case_events,
                                       state_change_event(case, to_state, SystemUser))
         ELSE UNCHANGED <<cases, case_events>>

\* sla_monitor_task: escalate_overdue_case(case, system_user) for the next
\* case of the batch.
SlaEscalate ==
  /\ automation.pc[SlaTask] = "escalate"
  /\ IF escalation_state(Head(automation.overdue_cases)) = NoState
     THEN /\ automation' = escalate_returned(FALSE)
          /\ UNCHANGED <<cases, case_events, last_transition>>
     ELSE escalate_transition(Head(automation.overdue_cases),
                              escalation_state(Head(automation.overdue_cases)))
  /\ UNCHANGED request_vars

\* escalation_task: timedelta(hours=48)
StaleEscalatedHours ==
  48

\* escalation_task: the where clause of the query for stale escalated cases
stale_where(case) ==
  /\ case.state = ESCALATED
  /\ case.updated_at < now - StaleEscalatedHours

\* An escalation_task that marks the stale cases it has found.
EscalationEnd_touches_stale ==
  /\ automation.pc[EscalationTask] = "query"
  /\ automation' = [automation EXCEPT !.pc[EscalationTask] = "sleep"]
  /\ cases' = [id \in DOMAIN cases |->
                 IF \E i \in DOMAIN automation.stale_escalated :
                      automation.stale_escalated[i].id = id
                 THEN [cases[id] EXCEPT !.updated_at = now]
                 ELSE cases[id]]
  /\ UNCHANGED <<case_events, last_transition>>
  /\ UNCHANGED request_vars

\* escalation_task at `while self.running`: the loop ends, or an iteration
\* begins, gets the system user and runs its query.
EscalationBegin ==
  /\ automation.pc[EscalationTask] \in {"loop", "sleep", "ensured"}
  /\ automation' =
       IF ~automation.running /\ automation.pc[EscalationTask] # "ensured"
       THEN [automation EXCEPT !.pc[EscalationTask] = "done"]
       ELSE IF ~system_user_known
       THEN [automation EXCEPT !.failed[EscalationTask] = FALSE,
                               !.pc[EscalationTask] = "create_user"]
       ELSE [automation EXCEPT !.system_user = SystemUser.id,
                               !.stale_escalated = SelectSeq(cases, stale_where),
                               !.failed[EscalationTask] = FALSE,
                               !.pc[EscalationTask] = "query"]
  /\ UNCHANGED <<cases, case_events, last_transition>>
  /\ UNCHANGED request_vars

\* escalation_task: the stale cases are logged, the session commits, the task
\* sleeps.
EscalationEnd ==
  /\ automation.pc[EscalationTask] = "query"
  /\ automation' = [automation EXCEPT !.pc[EscalationTask] = "sleep"]
  /\ UNCHANGED <<cases, case_events, last_transition>>
  /\ UNCHANGED request_vars

\* assignment_task: the where clause of the query for unassigned cases
unassigned_where(case) ==
  /\ case.state = IN_REVIEW
  /\ case.assigned_officer_id = NoUser

\* assignment_task: select(User).where(User.role == UserRole.OFFICER)
is_officer(user) ==
  user.role = OFFICER

officers ==
  SelectSeq(users, is_officer)

\* assignment_task at `while self.running`: the loop ends, or an iteration
\* begins and loads the unassigned cases in review.
AssignmentBegin ==
  /\ automation.pc[AssignmentTask] \in {"loop", "sleep"}
  /\ automation' =
       IF ~automation.running
       THEN [automation EXCEPT !.pc[AssignmentTask] = "done"]
       ELSE [automation EXCEPT !.unassigned_cases = SelectSeq(cases, unassigned_where),
                               !.failed[AssignmentTask] = FALSE,
                               !.pc[AssignmentTask] = "query"]
  /\ UNCHANGED <<cases, case_events, last_transition>>
  /\ UNCHANGED request_vars

\* An assignment that gives every case to the first officer.
assigned_to_first_officer(i) ==
  [automation.unassigned_cases[i + 1] EXCEPT
     !.assigned_officer_id = officers[1].id,
     !.updated_at          = now]

\* The loaded case i of the batch with its officer, officers[i % len(officers)]
\* (i counted from 0).
assigned(i) ==
  [automation.unassigned_cases[i + 1] EXCEPT
     !.assigned_officer_id = officers[(i % Len(officers)) + 1].id,
     !.updated_at          = now]

\* assignment_task: with officers, the cases loaded are assigned round-robin;
\* the session commits, the task sleeps.
AssignmentEnd ==
  /\ automation.pc[AssignmentTask] = "query"
  /\ cases' = [id \in DOMAIN cases |->
                 IF /\ officers # <<>>
                    /\ \E i \in 0..(Len(automation.unassigned_cases) - 1) :
                         automation.unassigned_cases[i + 1].id = id
                 THEN LET i == CHOOSE i \in 0..(Len(automation.unassigned_cases) - 1) :
                                 automation.unassigned_cases[i + 1].id = id
                      IN  flushed(cases[id], automation.unassigned_cases[i + 1], assigned(i))
                 ELSE cases[id]]
  /\ automation' = [automation EXCEPT !.unassigned_cases = <<>>,
                                      !.pc[AssignmentTask] = "sleep"]
  /\ UNCHANGED <<case_events, last_transition>>
  /\ UNCHANGED request_vars

\* ------------------------------------------------------------------------
\* Submissions racing on the store
\* ------------------------------------------------------------------------

\* The requests made: a URL, a file hash, both (spelled differently), an
\* unrelated URL and no content at all, without and with an idempotency key,
\* by two submitters.
DedupRequests ==
  { [submitter |-> Victim1,  url |-> UrlA,     file_hash |-> <<>>,    idempotency_key |-> ""],
    [submitter |-> Officer1, url |-> UrlA2,    file_hash |-> <<>>,    idempotency_key |-> ""],
    [submitter |-> Victim1,  url |-> <<>>,     file_hash |-> FileF,   idempotency_key |-> ""],
    [submitter |-> Officer1, url |-> <<>>,     file_hash |-> FileF2,  idempotency_key |-> ""],
    [submitter |-> Officer1, url |-> UrlA2,    file_hash |-> FileF2,  idempotency_key |-> ""],
    [submitter |-> Victim1,  url |-> BlankUrl, file_hash |-> FileBad, idempotency_key |-> ""],
    [submitter |-> Victim1,  url |-> UrlA,     file_hash |-> <<>>,    idempotency_key |-> "k1"],
    [submitter |-> Officer1, url |-> <<>>,     file_hash |-> FileF,   idempotency_key |-> "k1"],
    [submitter |-> Officer1, url |-> UrlB,     file_hash |-> <<>>,    idempotency_key |-> "k1"],
    [submitter |-> Victim1,  url |-> UrlB,     file_hash |-> FileE,   idempotency_key |-> "k2"],
    [submitter |-> Victim1,  url |-> BlankUrl, file_hash |-> FileBad, idempotency_key |-> "k1"] }

\* The request slots are interchangeable: a request takes the first free one.
FirstFree(p) ==
  \E i \in 1..Len(Slots) :
    /\ Slots[i] = p
    /\ pc[p] = "idle"
    /\ \A j \in 1..(i-1) : pc[Slots[j]] # "idle"

NextDedup ==
  \/ \E p \in Requests, r \in DedupRequests : FirstFree(p) /\ Submit(p, r)
  \/ \E p \in Requests : CheckIdempotencyKey(p)
  \/ \E p \in Requests : CheckExistingCase(p)
  \/ \E p \in Requests : Commit(p)

SpecDedup ==
  Init /\ [][NextDedup]_vars

\* ------------------------------------------------------------------------
\* Submissions one after the other
\* ------------------------------------------------------------------------

\* Three contents that share no hash, each under several spellings and by
\* two submitters, without idempotency key.
SeqRequests ==
  { [submitter |-> Victim1,  url |-> UrlA,  file_hash |-> <<>>,   idempotency_key |-> ""],
    [submitter |-> Officer1, url |-> UrlA2, file_hash |-> <<>>,   idempotency_key |-> ""],
    [submitter |-> Victim1,  url |-> <<>>,  file_hash |-> FileF,  idempotency_key |-> ""],
    [submitter |-> Officer1, url |-> <<>>,  file_hash |-> FileF2, idempotency_key |-> ""],
    [submitter |-> Victim1,  url |-> UrlB,  file_hash |-> FileE,  idempotency_key |-> ""],
    [submitter |-> Officer1, url |-> UrlB,  file_hash |-> FileE,  idempotency_key |-> ""] }

\* One slot: a request is made when the one before it has been answered.
NextSeq ==
  \/ \E r \in SeqRequests : Submit(Slots[1], r)
  \/ CheckExistingCase(Slots[1])
  \/ Commit(Slots[1])
  \/ Respond(Slots[1])

SpecSeq ==
  Init /\ [][NextSeq]_vars

\* ------------------------------------------------------------------------
\* The workflow of a submitted case
\* ------------------------------------------------------------------------

\* The submission the case of the workflow runs comes from.
WorkflowRequest ==
  [submitter |-> Victim1, url |-> UrlA, file_hash |-> <<>>, idempotency_key |-> ""]

\* The store once create_case has committed and answered WorkflowRequest at
\* time 0: case 1 is SUBMITTED and unassigned.
WorkflowStore ==
  /\ now = 0
  /\ next_uuid = 2
  /\ cases = <<new_case(1, WorkflowRequest.submitter, processed_submission(WorkflowRequest))>>
  /\ dedup_index = create_dedup_entries(cases[1])
  /\ idempotency_keys = {}
  /\ case_events = <<create_submission_event(cases[1], WorkflowRequest.submitter)>>
  /\ pc = [p \in Requests |-> "idle"]
  /\ req = [p \in Requests |-> NoRequest]
  /\ session = [p \in Requests |-> EmptySession]
  /\ result = [p \in Requests |-> NoResult]
  /\ started = 1
  /\ calls = <<[submitter_id    |-> WorkflowRequest.submitter.id,
                url             |-> WorkflowRequest.url,
                url_hash        |-> cases[1].url_hash,
                file_hash       |-> cases[1].file_hash,
                idempotency_key |-> WorkflowRequest.idempotency_key,
                case_id         |-> 1,
                is_new          |-> TRUE,
                error           |-> ""]>>
  /\ last_transition = NoTransition
  /\ automation = NoAutomation
  /\ normalizer = NoNormalization

InitWorkflow ==
  /\ WorkflowStore
  /\ users = UserRows

NextWorkflow ==
  \E id \in DOMAIN cases, to_state \in CaseState, user \in Users :
    TransitionCase(id, to_state, user)

SpecWorkflow ==
  InitWorkflow /\ [][NextWorkflow]_vars

\* ------------------------------------------------------------------------
\* The SLA sweep beside the transitions of users, as time passes
\* ------------------------------------------------------------------------

\* The users who call transition_case while the sweep runs.
SlaActors ==
  {Officer1}

NextSla ==
  \/ Tick
  \/ Start
  \/ SlaBegin
  \/ SlaEscalate
  \/ \E id \in DOMAIN cases, to_state \in CaseState, user \in SlaActors :
       TransitionCase(id, to_state, user)

SpecSla ==
  InitWorkflow /\ [][NextSla]_vars

\* The sweep scheduled fairly: the event loop runs a task that is ready, and
\* a sleep of 1800 seconds ends. The officer takes the case into review and
\* reports a match, or leaves it alone.
NextFairSla ==
  \/ Tick
  \/ Start
  \/ SlaBegin
  \/ SlaEscalate
  \/ \E id \in DOMAIN cases, to_state \in {IN_REVIEW, MATCH_FOUND} :
       TransitionCase(id, to_state, Officer1)

FairSpecSla ==
  /\ InitWorkflow
  /\ [][NextFairSla]_vars
  /\ WF_vars(SlaBegin)
  /\ WF_vars(SlaEscalate)

\* ------------------------------------------------------------------------
\* The three tasks of the automation service, started and stopped
\* ------------------------------------------------------------------------

\* How many times the clock advances while the tasks are started and stopped.
MaxLoopTicks ==
  2

\* start() once, stop() at any moment, the three loops, the clock, and an
\* admin who escalates the case and sends it back into review.
NextLoops ==
  \/ now < MaxLoopTicks * TickHours /\ Tick
  \/ Start
  \/ Stop
  \/ SlaBegin
  \/ SlaEscalate
  \/ EscalationBegin
  \/ EscalationEnd
  \/ AssignmentBegin
  \/ AssignmentEnd
  \/ \E id \in DOMAIN cases, to_state \in {ESCALATED, IN_REVIEW} :
       TransitionCase(id, to_state, Admin1)

SpecLoops ==
  InitWorkflow /\ [][NextLoops]_vars

\* The event loop runs every task that is ready, and every sleep ends.
FairSpecLoops ==
  /\ SpecLoops
  /\ WF_vars(SlaBegin)
  /\ WF_vars(SlaEscalate)
  /\ WF_vars(EscalationBegin)
  /\ WF_vars(EscalationEnd)
  /\ WF_vars(AssignmentBegin)
  /\ WF_vars(AssignmentEnd)

\* ------------------------------------------------------------------------
\* The assignment sweep on three cases
\* ------------------------------------------------------------------------

\* The submissions the three cases come from.
AssignRequests ==
  <<WorkflowRequest,
    [submitter |-> Victim1, url |-> UrlB, file_hash |-> <<>>, idempotency_key |-> ""],
    [submitter |-> Victim1, url |-> <<>>, file_hash |-> FileF, idempotency_key |-> ""]>>

\* What has happened to a case since it was submitted: nothing; officer 1 took
\* it into review; an admin escalated it and sent it back into review; the
\* admin escalated it and approved it.
CaseHistories ==
  {<<>>, <<[to |-> IN_REVIEW, by |-> "o1"]>>,
   <<[to |-> ESCALATED, by |-> "a1"], [to |-> IN_REVIEW, by |-> "a1"]>>,
   <<[to |-> ESCALATED, by |-> "a1"], [to |-> APPROVED, by |-> "a1"]>>}

\* The account with this id.
account(id) ==
  CHOOSE u \in Users : u.id = id

\* The case row after the transition_case calls of a history.
RECURSIVE after_history(_, _)
after_history(case, history) ==
  IF history = <<>> THEN case
  ELSE after_history(transitioned(case, Head(history).to, account(Head(history).by)),
                     Tail(history))

\* The events of a case with a history.
RECURSIVE events_of_history(_, _)
events_of_history(case, history) ==
  IF history = <<>> THEN <<>>
  ELSE <<state_change_event(case, Head(history).to, account(Head(history).by))>>
       \o events_of_history(after_history(case, <<Head(history)>>), Tail(history))

\* The case of the i-th submission as create_case stored it.
assign_case(i) ==
  new_case(i, AssignRequests[i].submitter, processed_submission(AssignRequests[i]))

\* The tables users the sweep may find: two officers, one officer, none.
no_officer2(user) ==
  user.id # "o2"

no_officer(user) ==
  user.role # OFFICER

UserTables ==
  {UserRows, SelectSeq(UserRows, no_officer2), SelectSeq(UserRows, no_officer)}

\* The store at time 0 once three submissions were answered and the cases
\* went through their histories.
InitAssign ==
  /\ now = 0
  /\ next_uuid = 4
  /\ \E h \in [1..3 -> CaseHistories] :
       /\ cases = [i \in 1..3 |-> after_history(assign_case(i), h[i])]
       /\ case_events =
            [i \in 1..3 |-> create_submission_event(assign_case(i), AssignRequests[i].submitter)]
            \o events_of_history(assign_case(1), h[1])
            \o events_of_history(assign_case(2), h[2])
            \o events_of_history(assign_case(3), h[3])
  /\ dedup_index = UNION {create_dedup_entries(assign_case(i)) : i \in 1..3}
  /\ idempotency_keys = {}
  /\ pc = [p \in Requests |-> "idle"]
  /\ req = [p \in Requests |-> NoRequest]
  /\ session = [p \in Requests |-> EmptySession]
  /\ result = [p \in Requests |-> NoResult]
  /\ started = 3
  /\ calls = [i \in 1..3 |->
                [submitter_id    |-> AssignRequests[i].submitter.id,
                 url             |-> AssignRequests[i].url,
                 url_hash        |-> assign_case(i).url_hash,
                 file_hash       |-> assign_case(i).file_hash,
                 idempotency_key |-> AssignRequests[i].idempotency_key,
                 case_id         |-> i,
                 is_new          |-> TRUE,
                 error           |-> ""]]
  /\ last_transition = NoTransition
  /\ automation = NoAutomation
  /\ normalizer = NoNormalization
  /\ users \in UserTables

\* The assignment task runs as time passes.
NextAssign ==
  \/ now < MaxLoopTicks * TickHours /\ Tick
  \/ Start
  \/ AssignmentBegin
  \/ AssignmentEnd

SpecAssign ==
  InitAssign /\ [][NextAssign]_vars

\* ------------------------------------------------------------------------
\* The stale-escalation sweep
\* ------------------------------------------------------------------------

\* An admin escalates the case and sends it back into review while the clock
\* and the stale-escalation task run.
NextStale ==
  \/ Tick
  \/ Start
  \/ EscalationBegin
  \/ EscalationEnd
  \/ \E id \in DOMAIN cases, to_state \in {ESCALATED, IN_REVIEW} :
       TransitionCase(id, to_state, Admin1)

SpecStale ==
  InitWorkflow /\ [][NextStale]_vars

\* ------------------------------------------------------------------------
\* The first start of the service
\* ------------------------------------------------------------------------

is_account(user) ==
  user.id # SystemUser.id

\* The store of InitWorkflow before the service has ever run: no system user.
InitFresh ==
  /\ WorkflowStore
  /\ users = SelectSeq(UserRows, is_account)

\* start(), the three tasks begun together, and the clock.
NextFresh ==
  \/ now < MaxLoopTicks * TickHours /\ Tick
  \/ Start
  \/ SlaBegin
  \/ SlaEscalate
  \/ EscalationBegin
  \/ EscalationEnd
  \/ AssignmentBegin
  \/ AssignmentEnd
  \/ \E t \in {SlaTask, EscalationTask} : CreateSystemUser(t)

SpecFresh ==
  InitFresh /\ [][NextFresh]_vars

\* ------------------------------------------------------------------------
\* Iterations that raise
\* ------------------------------------------------------------------------

\* The task stands in an iteration, or at a `while self.running` that lets it
\* begin one.
InIteration(t) ==
  \/ automation.pc[t] \in {"escalate", "query", "create_user", "ensured"}
  \/ automation.pc[t] \in {"loop", "sleep"} /\ automation.running

\* What the task holds when its iteration has left the session block.
left_iteration(t) ==
  [automation EXCEPT
     !.overdue_cases    = IF t = SlaTask THEN <<>> ELSE @,
     !.unassigned_cases = IF t = AssignmentTask THEN <<>> ELSE @]

\* A loop that an exception of an iteration ends.
Raises_ends_loop(t) ==
  /\ InIteration(t)
  /\ automation' = [left_iteration(t) EXCEPT !.failed[t] = TRUE, !.pc[t] = "done"]
  /\ UNCHANGED <<cases, case_events, last_transition>>
  /\ UNCHANGED request_vars

\* A statement of the task's iteration raises (a query, ensure_system_user or
\* the commit fails): the session block is left without a commit, the
\* `except Exception` of the while loop logs the error, and the task sleeps.
Raises(t) ==
  /\ InIteration(t)
  /\ automation' = [left_iteration(t) EXCEPT !.failed[t] = TRUE, !.pc[t] = "sleep"]
  /\ UNCHANGED <<cases, case_events, last_transition>>
  /\ UNCHANGED request_vars

\* start() once, stop() at any moment, the three loops with iterations that
\* may raise, and the clock.
NextRaises ==
  \/ now < MaxLoopTicks * TickHours /\ Tick
  \/ Start
  \/ Stop
  \/ SlaBegin
  \/ SlaEscalate
  \/ EscalationBegin
  \/ EscalationEnd
  \/ AssignmentBegin
  \/ AssignmentEnd
  \/ \E t \in Tasks : Raises(t)

SpecRaises ==
  InitWorkflow /\ [][NextRaises]_vars

\* The event loop runs every task that is ready, and every sleep ends; no
\* iteration has to raise.
FairSpecRaises ==
  /\ SpecRaises
  /\ WF_vars(SlaBegin)
  /\ WF_vars(SlaEscalate)
  /\ WF_vars(EscalationBegin)
  /\ WF_vars(EscalationEnd)
  /\ WF_vars(AssignmentBegin)
  /\ WF_vars(AssignmentEnd)

\* ------------------------------------------------------------------------
\* A case created and moved by an officer, as time passes
\* ------------------------------------------------------------------------

\* One submission, made at any time, and the transitions of officer 1.
NextTimed ==
  \/ Tick
  \/ started = 0 /\ Submit(Slots[1], WorkflowRequest)
  \/ CheckExistingCase(Slots[1])
  \/ Commit(Slots[1])
  \/ Respond(Slots[1])
  \/ \E id \in DOMAIN cases, to_state \in CaseState :
       TransitionCase(id, to_state, Officer1)

SpecTimed ==
  Init /\ [][NextTimed]_vars

\* ------------------------------------------------------------------------
\* The normalizer called on URLs
\* ------------------------------------------------------------------------

\* str.upper()
upper(s) ==
  [i \in 1..Len(s) |-> UpperChar(s[i])]

\* The characters short URLs are written with, and how long they are.
UrlChars ==
  {"x", "/", " ", "?", "="}

MaxUrlLen ==
  4

ShortUrls ==
  UNION {[1..n -> UrlChars] : n \in 0..MaxUrlLen}

\* URLs to spell in several ways: scheme and host, path, query.
UrlBases ==
  { [host |-> <<"h", "t", "t", "p", "s", ":", "/", "/", "x", ".", "c", "o">>,
     path |-> <<>>, query |-> <<>>],
    [host |-> <<"h", "t", "t", "p", "s", ":", "/", "/", "x", ".", "c", "o">>,
     path |-> <<"/", "a">>, query |-> <<>>],
    [host |-> <<"x", ".", "c", "o">>,
     path |-> <<"/", "a", "/", "b">>, query |-> <<"b", "=", "1">>] }

\* The query of a spelling: the base's, with the tracking parameter ref=1 or
\* without.
SpelledQuery(query, tracking) ==
  IF tracking
  THEN <<"?">> \o query \o (IF query = <<>> THEN <<>> ELSE <<"&">>) \o <<"r", "e", "f", "=", "1">>
  ELSE IF query = <<>> THEN <<>> ELSE <<"?">> \o query

\* A spelling of a base: with a slash after the path or not, with a tracking
\* parameter or not, with a fragment or not, in upper case after the scheme
\* or as it is.
Spelled(base, slash, tracking, fragment) ==
  base.path \o (IF slash THEN <<"/">> ELSE <<>>)
            \o SpelledQuery(base.query, tracking)
            \o (IF fragment THEN <<"#", "f">> ELSE <<>>)

Spellings(base) ==
  { base.host \o (IF upper_case THEN upper(rest) ELSE rest) :
      upper_case \in BOOLEAN,
      rest \in {Spelled(base, slash, tracking, fragment) :
                  slash \in BOOLEAN, tracking \in BOOLEAN, fragment \in BOOLEAN} }

\* What the normalizer returns for a URL.
normalized(url, url_normalized) ==
  [url |-> url, url_normalized |-> url_normalized,
   url_hash |-> compute_url_hash(url_normalized)]

\* URLNormalizer.normalize_url(url) and compute_url_hash of what it returns.
NormalizeUrl(url) ==
  /\ normalizer' = normalized(url, normalize_url(url))
  /\ UNCHANGED <<cases, dedup_index, idempotency_keys, case_events, next_uuid, now,
                 pc, req, session, result, started, calls, last_transition, automation, users>>

\* A URL is normalized; what came out is normalized again; another spelling
\* of the same URL is normalized.
NextNormalize ==
  \/ normalizer = NoNormalization
       /\ \E url \in ShortUrls \cup UNION {Spellings(base) : base \in UrlBases} :
            NormalizeUrl(url)
  \/ normalizer # NoNormalization /\ NormalizeUrl(normalizer.url_normalized)
  \/ \E base \in UrlBases :
       /\ normalizer.url \in Spellings(base)
       /\ \E url \in Spellings(base) : NormalizeUrl(url)

SpecNormalize ==
  Init /\ [][NextNormalize]_vars

\* ------------------------------------------------------------------------
\* process_submission called on contents, and one submission
\* ------------------------------------------------------------------------

\* URLs and file hashes process_submission is called with: none, blank,
\* spelled with blanks around them, valid, and hashes that are too short, too
\* long or not hexadecimal.
ProcessUrls ==
  {<<>>, BlankUrl, BlankUrl \o BlankUrl, UrlA, UrlA2, UrlB, BlankUrl \o UrlB, UrlB \o BlankUrl}

ProcessFiles ==
  {<<>>, BlankUrl, FileF, FileF2, FileE, FileBad, Rep("f", HashLen - 1),
   Rep("f", HashLen + 1), FileE \o BlankUrl, <<"f">> \o BlankUrl \o Rep("f", HashLen - 1)}

\* URLNormalizer.process_submission(url, file_hash): the arguments and the
\* dict returned.
ProcessSubmission(url, file_hash) ==
  /\ normalizer' = [url |-> url, file_hash |-> file_hash,
                    result |-> process_submission(url, file_hash)]
  /\ UNCHANGED <<cases, dedup_index, idempotency_keys, case_events, next_uuid, now,
                 pc, req, session, result, started, calls, last_transition, automation, users>>

\* The requests of a victim over every content, without idempotency key.
ProcessRequests ==
  {[submitter |-> Victim1, url |-> c.url, file_hash |-> c.file_hash, idempotency_key |-> ""] :
     c \in Contents}

\* Calls of process_submission, then one create_case call.
NextProcess ==
  \/ started = 0
       /\ \E url \in ProcessUrls, file_hash \in ProcessFiles : ProcessSubmission(url, file_hash)
  \/ started = 0 /\ \E r \in ProcessRequests : Submit(Slots[1], r)
  \/ CheckExistingCase(Slots[1])
  \/ Commit(Slots[1])
  \/ Respond(Slots[1])

SpecProcess ==
  Init /\ [][NextProcess]_vars

\* ------------------------------------------------------------------------
\* The SLA sweep on a batch of two cases
\* ------------------------------------------------------------------------

\* The submissions the two cases come from.
BatchRequests ==
  <<WorkflowRequest,
    [submitter |-> Victim1, url |-> UrlB, file_hash |-> <<>>, idempotency_key |-> ""]>>

\* What create_case recorded for the i-th submission.
batch_call(i, case) ==
  [submitter_id    |-> BatchRequests[i].submitter.id,
   url             |-> BatchRequests[i].url,
   url_hash        |-> case.url_hash,
   file_hash       |-> case.file_hash,
   idempotency_key |-> BatchRequests[i].idempotency_key,
   case_id         |-> i,
   is_new          |-> TRUE,
   error           |-> ""]

\* The store once create_case has committed and answered the two submissions
\* at time 0: cases 1 and 2 are SUBMITTED and unassigned.
InitBatch ==
  /\ now = 0
  /\ next_uuid = 3
  /\ cases = [i \in 1..2 |->
                new_case(i, BatchRequests[i].submitter, processed_submission(BatchRequests[i]))]
  /\ dedup_index = create_dedup_entries(cases[1]) \cup create_dedup_entries(cases[2])
  /\ idempotency_keys = {}
  /\ case_events = [i \in 1..2 |-> create_submission_event(cases[i], BatchRequests[i].submitter)]
  /\ pc = [p \in Requests |-> "idle"]
  /\ req = [p \in Requests |-> NoRequest]
  /\ session = [p \in Requests |-> EmptySession]
  /\ result = [p \in Requests |-> NoResult]
  /\ started = 2
  /\ calls = [i \in 1..2 |-> batch_call(i, cases[i])]
  /\ last_transition = NoTransition
  /\ automation = NoAutomation
  /\ normalizer = NoNormalization
  /\ users = UserRows

\* escalate_overdue_case raises for the next case of the batch: the commit of
\* transition_case fails, the transaction is rolled back, and the exception,
\* which is no ValueError, reaches the `except Exception` of the sweep's for
\* loop, which logs it and goes on with the next case.
SlaEscalateRaises ==
  /\ automation.pc[SlaTask] = "escalate"
  /\ escalation_state(Head(automation.overdue_cases)) # NoState
  /\ can_transition(Head(automation.overdue_cases),
                    escalation_state(Head(automation.overdue_cases)), SystemUser).allowed
  /\ last_transition' =
       [case_id    |-> Head(automation.overdue_cases).id,
        from_state |-> Head(automation.overdue_cases).state,
        to_state   |-> escalation_state(Head(automation.overdue_cases)),
        actor      |-> SystemUser.id, ok |-> FALSE, reason |-> "Exception"]
  /\ automation' = escalate_returned(FALSE)
  /\ UNCHANGED <<cases, case_events>>
  /\ UNCHANGED request_vars

\* An officer takes cases into review while the clock and the sweep run.
NextBatch ==
  \/ Tick
  \/ Start
  \/ SlaBegin
  \/ SlaEscalate
  \/ SlaEscalateRaises
  \/ \E id \in DOMAIN cases : TransitionCase(id, IN_REVIEW, Officer1)

SpecBatch ==
  InitBatch /\ [][NextBatch]_vars

\* ------------------------------------------------------------------------
\* Status updates racing on a case (app/routers/cases.py)
\* ------------------------------------------------------------------------

\* update_case_status: the request's session loads the case; the request
\* then waits for nothing but its own commit.
LoadCase(p, id) ==
  /\ pc[p] = "idle"
  /\ id \in DOMAIN cases
  /\ pc' = [pc EXCEPT ![p] = "loaded"]
  /\ session' = [session EXCEPT ![p] =
                   [EmptySession EXCEPT !.cases = <<cases[id]>>, !.case_id = id]]
  /\ UNCHANGED <<cases, dedup_index, idempotency_keys, case_events, next_uuid, now,
                 req, result, started, calls, last_transition, automation, normalizer, users>>

\* update_case_status: can_transition and transition_case on the Case object
\* the session loaded; a refusal is answered with 400, else the changed
\* columns, the event and the commit go to the database.
UpdateCaseStatus(p, to_state, user) ==
  /\ pc[p] = "loaded"
  /\ user.role # VICTIM
  /\ LET case  == session[p].cases[1]
         check == can_transition(case, to_state, user)
     IN  /\ last_transition' =
               [case_id |-> case.id, from_state |-> case.state, to_state |-> to_state,
                actor |-> user.id, ok |-> check.allowed, reason |-> check.reason]
         /\ IF check.allowed
            THEN /\ Len(case_events) < MaxEvents
                 /\ cases' = [cases EXCEPT ![case.id] =
                                flushed(@, case, transitioned(case, to_state, user))]
                 /\ case_events' = Append(case_events,
                                          state_change_event(case, to_state, user))
            ELSE UNCHANGED <<cases, case_events>>
  /\ pc' = [pc EXCEPT ![p] = "idle"]
  /\ session' = [session EXCEPT ![p] = EmptySession]
  /\ UNCHANGED <<dedup_index, idempotency_keys, next_uuid, now,
                 req, result, started, calls, automation, normalizer, users>>

\* The requests in flight at a time, and who sends them.
RaceRequests ==
  {Slots[1], Slots[2]}

RaceActors ==
  {Officer1, Officer2}

\* The states the requests ask for.
RaceStates ==
  {IN_REVIEW, APPROVED, COMPLETED}

NextRace ==
  \/ \E p \in RaceRequests, id \in DOMAIN cases : LoadCase(p, id)
  \/ \E p \in RaceRequests, to_state \in RaceStates, user \in RaceActors :
       UpdateCaseStatus(p, to_state, user)

SpecRace ==
  InitWorkflow /\ [][NextRace]_vars

\* ------------------------------------------------------------------------
\* start() and stop() called again
\* ------------------------------------------------------------------------

\* How many start() calls of a run create tasks.
MaxStarts ==
  2

\* start() called again: while running it returns at once; else the flag is
\* set and three new tasks are created, whatever became of the tasks created
\* before.
StartAgain ==
  /\ \E t \in Tasks : automation.pc[t] # "not_started"
  /\ automation.running \/ Len(automation.earlier) + 1 < MaxStarts
  /\ automation' =
       IF automation.running THEN automation
       ELSE [automation EXCEPT
               !.running = TRUE,
               !.earlier = Append(@, [pc |-> automation.pc, returned |-> FALSE]),
               !.pc      = [t \in Tasks |-> "loop"]]
  /\ UNCHANGED <<cases, case_events, last_transition>>
  /\ UNCHANGED request_vars

\* The store holds nothing for the sweeps to act on: no overdue case, no
\* stale escalated case, no unassigned case in review.
nothing_to_sweep ==
  /\ system_user_known
  /\ get_overdue_cases = <<>>
  /\ SelectSeq(cases, stale_where) = <<>>
  /\ SelectSeq(cases, unassigned_where) = <<>>

\* Where a task created by an earlier start() goes next: at
\* `while self.running` the loop ends or begins an iteration (that of
\* sla_monitor_task finds no overdue case, commits and sleeps); after its
\* query the iteration commits and the task sleeps.
earlier_next(t, at) ==
  IF at = "query" THEN "sleep"
  ELSE IF ~automation.running THEN "done"
  ELSE IF t = SlaTask THEN "sleep"
  ELSE "query"

\* A task created by the start() call g, not the latest one, takes its step;
\* an iteration of sla_monitor_task or escalation_task begins with
\* ensure_system_user, which caches the user it finds.
EarlierStep(g, t) ==
  /\ g \in 1..Len(automation.earlier)
  /\ automation.earlier[g].pc[t] \in {"loop", "sleep", "query"}
  /\ nothing_to_sweep
  /\ automation' = [automation EXCEPT
                      !.system_user = IF /\ automation.earlier[g].pc[t] # "query"
                                         /\ automation.running
                                         /\ t \in {SlaTask, EscalationTask}
                                      THEN SystemUser.id ELSE @,
                      !.earlier[g].pc[t] = earlier_next(t, automation.earlier[g].pc[t])]
  /\ UNCHANGED <<cases, case_events, last_transition>>
  /\ UNCHANGED request_vars

\* The three tasks of an earlier start() call have ended: its gather returns
\* and its `finally` clears the flag.
StartReturns(g) ==
  /\ g \in 1..Len(automation.earlier)
  /\ ~automation.earlier[g].returned
  /\ \A t \in Tasks : automation.earlier[g].pc[t] = "done"
  /\ automation' = [automation EXCEPT !.running = FALSE,
                                      !.earlier[g].returned = TRUE]
  /\ UNCHANGED <<cases, case_events, last_transition>>
  /\ UNCHANGED request_vars

\* start() and stop() are called again and again while the tasks run on a
\* store with nothing to sweep.
NextRestart ==
  \/ Start
  \/ Stop
  \/ StartAgain
  \/ SlaBegin
  \/ EscalationBegin
  \/ EscalationEnd
  \/ AssignmentBegin
  \/ AssignmentEnd
  \/ \E g \in 1..MaxStarts, t \in Tasks : EarlierStep(g, t)
  \/ \E g \in 1..MaxStarts : StartReturns(g)

SpecRestart ==
  InitWorkflow /\ [][NextRestart]_vars

\* ------------------------------------------------------------------------
\* Properties of the deduplication service
\* ------------------------------------------------------------------------

tables ==
  <<cases, dedup_index, idempotency_keys, case_events>>

\* The request in slot p has taken a step.
Stepped(p) ==
  pc'[p] # pc[p]

CasesWithUrlHash(h) ==
  {id \in DOMAIN cases : cases[id].url_hash = h}

CasesWithFileHash(h) ==
  {id \in DOMAIN cases : cases[id].file_hash = h}

DedupRowsWithUrlHash(h) ==
  {d \in dedup_index : d.url_hash = h}

DedupRowsWithFileHash(h) ==
  {d \in dedup_index : d.file_hash = h}

EventsOf(id, action) ==
  {i \in 1..Len(case_events) : case_events[i].case_id = id /\ case_events[i].action = action}

\* The hashes of each content of the model, computed once.
UrlHashes ==
  [u \in {c.url : c \in Contents} |-> compute_url_hash(normalize_url(u))]

FileHashes ==
  [f \in {c.file_hash : c \in Contents} |-> compute_file_hash(f)]

\* The hashes of the content of the request in slot p.
UrlHashOf(p) ==
  UrlHashes[req[p].url]

FileHashOf(p) ==
  FileHashes[req[p].file_hash]

\* C1: once the submissions have finished, every hash of a finished submission
\* is carried by at most one Case and by as many DedupIndex rows as Cases; a
\* finished submission without idempotency key has a Case carrying a hash of
\* its content, and exactly one Case and one DedupIndex row carry the hash of
\* a content that has one hash only - whatever the interleaving of the
\* lookups and the commits was.
C1_OneCasePerContent ==
  (\A q \in Requests : pc[q] \in {"idle", "done"}) =>
    \A p \in Requests :
      pc[p] = "done" =>
        LET uh == UrlHashOf(p)
            fh == FileHashOf(p)
            cu == IF uh = <<>> THEN {} ELSE CasesWithUrlHash(uh)
            cf == IF fh = <<>> THEN {} ELSE CasesWithFileHash(fh)
            du == IF uh = <<>> THEN {} ELSE DedupRowsWithUrlHash(uh)
            df == IF fh = <<>> THEN {} ELSE DedupRowsWithFileHash(fh)
        IN  /\ Cardinality(cu) <= 1 /\ Cardinality(du) = Cardinality(cu)
            /\ Cardinality(cf) <= 1 /\ Cardinality(df) = Cardinality(cf)
            /\ (req[p].idempotency_key = "" /\ (uh # <<>> \/ fh # <<>>)) =>
                 /\ cu \cup cf # {}
                 /\ (fh = <<>> => Cardinality(cu) = 1 /\ Cardinality(du) = 1)
                 /\ (uh = <<>> => Cardinality(cf) = 1 /\ Cardinality(df) = 1)

\* Two submissions of one file hash by different users have both finished,
\* and they raced: one of them found the hash taken only at its commit.
C1_Witness ==
  /\ \A q \in Requests : pc[q] = "done"
  /\ \E p, q \in Requests :
       /\ p # q
       /\ req[p].idempotency_key = "" /\ req[q].idempotency_key = ""
       /\ req[p].submitter # req[q].submitter
       /\ FileHashOf(p) # <<>> /\ FileHashOf(p) = FileHashOf(q)
       /\ UrlHashOf(p) = <<>> /\ UrlHashOf(q) = <<>>
       /\ result[p].error = ""
       /\ "dedup_index.file_hash" \in result[q].conflicts

\* C2: a submission whose DedupIndex insert hit the unique constraint still
\* completes, with the winner's case and isNew = false.
C2_RaceLoserGetsExistingCase ==
  \A p \in Requests :
    (pc[p] = "done"
       /\ result[p].conflicts \cap {"dedup_index.url_hash", "dedup_index.file_hash"} # {}) =>
      /\ result[p].error = ""
      /\ result[p].is_new = FALSE
      /\ result[p].case_id \in DOMAIN cases
      /\ \/ (UrlHashOf(p) # <<>> /\ cases[result[p].case_id].url_hash = UrlHashOf(p))
         \/ (FileHashOf(p) # <<>> /\ cases[result[p].case_id].file_hash = FileHashOf(p))

\* Every committed Case has its DedupIndex rows and its 'submitted' event, and
\* no row of another table refers to a Case that is not there.
C3_CommittedWhole ==
  /\ \A id \in DOMAIN cases :
       /\ cases[id].url_hash # <<>> =>
            \E d \in dedup_index : d.case_id = id /\ d.url_hash = cases[id].url_hash
       /\ cases[id].file_hash # <<>> =>
            \E d \in dedup_index : d.case_id = id /\ d.file_hash = cases[id].file_hash
       /\ Cardinality(EventsOf(id, "submitted")) = 1
  /\ \A d \in dedup_index : d.case_id \in DOMAIN cases
  /\ \A k \in idempotency_keys : k.case_id \in DOMAIN cases
  /\ \A i \in 1..Len(case_events) : case_events[i].case_id \in DOMAIN cases
  /\ \A p \in Requests :
       (pc[p] = "done" /\ result[p].is_new /\ req[p].idempotency_key # "") =>
         [key |-> req[p].idempotency_key, case_id |-> result[p].case_id] \in idempotency_keys

\* C3: the writes of one submission are all-or-nothing: every committed Case
\* has its DedupIndex rows, its 'submitted' event and the binding of the
\* idempotency key it was created with, and a submission that ends in an
\* error leaves every table as it was.
C3_AllOrNothing ==
  /\ []C3_CommittedWhole
  /\ [][\A p \in Requests :
          (Stepped(p) /\ pc'[p] = "done" /\ result'[p].error # "") => tables' = tables]_vars

\* One submission was rolled back at its commit and another created a case
\* together with its idempotency key.
C3_Witness ==
  \E p, q \in Requests :
    /\ pc[p] = "done" /\ result[p].error = "IntegrityError"
    /\ pc[q] = "done" /\ result[q].is_new /\ req[q].idempotency_key # ""

\* The contents that hold neither a non-blank URL nor 64 hexadecimal digits
\* as file hash, as the caller spelled them.
\* The answered calls that carried the content of call k.
SameContent(k) ==
  {i \in 1..Len(calls) :
     calls[i].url_hash = calls[k].url_hash /\ calls[i].file_hash = calls[k].file_hash}

\* The cases that carry a hash of the content of call k.
Carrying(k) ==
  {id \in DOMAIN cases :
     \/ (calls[k].url_hash # <<>> /\ cases[id].url_hash = calls[k].url_hash)
     \/ (calls[k].file_hash # <<>> /\ cases[id].file_hash = calls[k].file_hash)}

\* C4: after N submissions of one content made one after the other without
\* idempotency key - by any submitters, under any spellings with the same
\* hashes - one Case carries the content, every call has returned that case,
\* isNew was true for the first call and for no other, and the case has N-1
\* 'linked_submission' events.
C4_RepeatedSubmissionsOneCase ==
  \A k \in 1..Len(calls) :
    LET first == CHOOSE i \in SameContent(k) : \A j \in SameContent(k) : i <= j
    IN  /\ calls[k].error = ""
        /\ calls[k].case_id = calls[first].case_id
        /\ Carrying(k) = {calls[first].case_id}
        /\ calls[k].is_new <=> (k = first)
        /\ pc[Slots[1]] = "idle" =>
             Cardinality(EventsOf(calls[first].case_id, "linked_submission"))
               = Cardinality(SameContent(k)) - 1

\* One content has been submitted three times, under two spellings and by two
\* submitters, and the three calls are answered.
C4_Witness ==
  /\ pc[Slots[1]] = "idle"
  /\ \E i, j, k \in 1..Len(calls) :
       /\ i < j /\ j < k
       /\ SameContent(i) = {i, j, k}
       /\ calls[i].url # calls[j].url
       /\ calls[j].submitter_id # calls[k].submitter_id
       /\ Cardinality(EventsOf(calls[i].case_id, "linked_submission")) = 2

ContentsWithoutContent ==
  {c \in Contents :
     /\ strip(c.url) = <<>>
     /\ LET cleaned == lower(strip(c.file_hash))
        IN  ~(Len(cleaned) = HashLen /\ \A i \in 1..Len(cleaned) : cleaned[i] \in HexDigits)}

NoContent(r) ==
  [url |-> r.url, file_hash |-> r.file_hash] \in ContentsWithoutContent

\* C5: a submit whose idempotency key is already bound to case c returns
\* (c, false) whatever its (valid) content is, writes no row and changes no
\* field of c.
C5_BoundKeyReturnsItsCase ==
  [][\A p \in Requests :
       LET bound == {k \in idempotency_keys : k.key = req'[p].idempotency_key}
       IN  /\ (Stepped(p) /\ pc[p] = "idle" /\ bound # {} /\ ~NoContent(req'[p])) =>
                pc'[p] = "check_idempotency_key"
           /\ (Stepped(p) /\ pc[p] = "check_idempotency_key" /\ bound # {}) =>
                /\ pc'[p] = "done"
                /\ result'[p].error = "" /\ result'[p].is_new = FALSE
                /\ \A k \in bound : result'[p].case_id = k.case_id
                /\ tables' = tables]_vars

\* A replay of a bound key has returned the bound case although its content
\* is another one, and that content is the content of a second case.
C5_Witness ==
  \E p \in Requests :
    /\ pc[p] = "done" /\ result[p].error = "" /\ ~result[p].is_new
    /\ [key |-> req[p].idempotency_key, case_id |-> result[p].case_id] \in idempotency_keys
    /\ cases[result[p].case_id].url_hash # UrlHashOf(p)
    /\ \E id \in DOMAIN cases :
         id # result[p].case_id /\ UrlHashOf(p) # <<>> /\ cases[id].url_hash = UrlHashOf(p)

\* The cases that carry a hash of the content of the request in slot p.
Matching(p) ==
  {id \in DOMAIN cases :
     \/ (UrlHashOf(p) # <<>> /\ cases[id].url_hash = UrlHashOf(p))
     \/ (FileHashOf(p) # <<>> /\ cases[id].file_hash = FileHashOf(p))}

\* C6: when the existing-case lookup of a submission runs and some Case
\* carries one of the submission's hashes, the submission goes on to link
\* itself to a matching case: one 'linked_submission' event, no new Case,
\* isNew = false.
C6_MatchIsLinked ==
  [][\A p \in Requests :
       (Stepped(p) /\ pc[p] = "check_existing_case" /\ Matching(p) # {}) =>
         /\ pc'[p] = "commit"
         /\ session'[p].case_id \in Matching(p)
         /\ session'[p].is_new = FALSE
         /\ session'[p].cases = <<>>
         /\ Len(session'[p].events) = 1
         /\ session'[p].events[1].action = "linked_submission"
         /\ session'[p].events[1].case_id = session'[p].case_id]_vars

\* C7: a submit with neither a non-blank URL nor a valid file hash fails with
\* the validation error before anything else is looked at - also when its
\* idempotency key is bound - and writes nothing.
C7_NoContentFailsFirst ==
  /\ [](\A p \in Requests :
          (pc[p] # "idle" /\ NoContent(req[p])) =>
            /\ pc[p] = "done"
            /\ result[p].error = "ValueError"
            /\ result[p].case_id = 0)
  /\ [][\A p \in Requests :
          (Stepped(p) /\ NoContent(req'[p])) => tables' = tables]_vars

\* A submit without content has failed although its idempotency key is bound.
C7_Witness ==
  \E p \in Requests :
    /\ pc[p] = "done" /\ result[p].error = "ValueError"
    /\ \E k \in idempotency_keys : k.key = req[p].idempotency_key

\* ------------------------------------------------------------------------
\* Properties of the workflow manager
\* ------------------------------------------------------------------------

\* The thirteen transitions the specification lists.
ListedTransitions ==
  { <<SUBMITTED, IN_REVIEW>>, <<SUBMITTED, ESCALATED>>,
    <<IN_REVIEW, APPROVED>>, <<IN_REVIEW, REJECTED>>, <<IN_REVIEW, MATCH_FOUND>>,
    <<IN_REVIEW, ESCALATED>>,
    <<ESCALATED, APPROVED>>, <<ESCALATED, REJECTED>>, <<ESCALATED, IN_REVIEW>>,
    <<MATCH_FOUND, COMPLETED>>, <<MATCH_FOUND, ESCALATED>>,
    <<APPROVED, COMPLETED>>, <<REJECTED, COMPLETED>> }

\* Who a case may be assigned to, or nobody.
Assignees ==
  {NoUser} \cup {u.id : u \in Users}

\* What can_transition reads of a case: its state and its assigned officer.
AnyCase(state, assignee) ==
  [state |-> state, assigned_officer_id |-> assignee]

\* can_transition refuses every pair that is not listed, whoever asks and
\* whoever the case is assigned to.
C8_UnlistedRefused ==
  \A from \in CaseState, to \in CaseState, assignee \in Assignees, user \in Users :
    (<<from, to>> \notin ListedTransitions \/ from = COMPLETED \/ to = SUBMITTED) =>
      ~can_transition(AnyCase(from, assignee), to, user).allowed

\* C8: can_transition refuses every (from, to) pair that is not one of the
\* thirteen listed transitions, for every actor and every assignment of the
\* case; a call of transition_case with such a pair fails and changes nothing;
\* every change of a case's state follows a listed transition, none leaves
\* COMPLETED and none enters SUBMITTED.
C8_TransitionTableClosure ==
  /\ [](/\ C8_UnlistedRefused
        /\ \A id \in DOMAIN cases, to \in CaseState, user \in Users :
             (\/ <<cases[id].state, to>> \notin ListedTransitions
              \/ cases[id].state = COMPLETED
              \/ to = SUBMITTED) => ~can_transition(cases[id], to, user).allowed)
  /\ [][/\ (/\ last_transition' # last_transition
            /\ <<last_transition'.from_state, last_transition'.to_state>> \notin ListedTransitions)
           => (~last_transition'.ok /\ cases' = cases /\ case_events' = case_events)
        /\ \A id \in DOMAIN cases :
             cases'[id].state # cases[id].state =>
               /\ <<cases[id].state, cases'[id].state>> \in ListedTransitions
               /\ cases[id].state # COMPLETED
               /\ cases'[id].state # SUBMITTED]_vars

\* An admin has asked to reopen a completed case and has been refused.
C8_Witness ==
  /\ \E id \in DOMAIN cases : cases[id].state = COMPLETED /\ last_transition.case_id = id
  /\ last_transition.from_state = COMPLETED
  /\ last_transition.to_state = IN_REVIEW
  /\ last_transition.actor = Admin1.id
  /\ ~last_transition.ok
  /\ last_transition.reason = "transition is not allowed"

\* The tier of a role: victim(0) < officer(1) < admin(2).
Tier(role) ==
  CASE role = VICTIM  -> 0
    [] role = OFFICER -> 1
    [] role = ADMIN   -> 2

\* The assignment lock stands between the user and the case.
Locked(case, user) ==
  /\ case.state = IN_REVIEW
  /\ case.assigned_officer_id # NoUser
  /\ case.assigned_officer_id # user.id
  /\ user.role # ADMIN

\* C9: for every listed transition out of a case's state and every user the
\* assignment lock does not block, can_transition allows the user exactly when
\* the tier of the user's role is at least the tier of the required role, and
\* the refusal of a too low role says the role is insufficient.
C9_RoleTier ==
  \A id \in DOMAIN cases, to \in CaseState, user \in Users :
    (<<cases[id].state, to>> \in ListedTransitions /\ ~Locked(cases[id], user)) =>
      LET check == can_transition(cases[id], to, user)
          enough == Tier(user.role) >= Tier(transitions_map(cases[id].state, to).required_role)
      IN  /\ check.allowed <=> enough
          /\ ~enough => check.reason = "user role insufficient"

\* What the lock does to a case in the given state with the given assignee,
\* for every target state and every user.
LockRule(case) ==
  \A to \in CaseState, user \in Users :
    LET check  == can_transition(case, to, user)
        inLock == case.state = IN_REVIEW /\ case.assigned_officer_id # NoUser
    IN  /\ (inLock /\ check.allowed) =>
             (user.id = case.assigned_officer_id \/ user.role = ADMIN)
        /\ check.reason = "only the assigned officer or admin" =>
             (inLock /\ ~check.allowed /\ user.id # case.assigned_officer_id /\ user.role # ADMIN)
        /\ ~inLock =>
             \A other \in Users :
               other.role = user.role => can_transition(case, to, other) = check

\* The lock rule for every state and every assignment a case can have.
C10_LockRuleEverywhere ==
  \A state \in CaseState, assignee \in Assignees : LockRule(AnyCase(state, assignee))

\* C10: a case that is IN_REVIEW and assigned is transitioned only by its
\* assigned officer or by an admin - can_transition allows nobody else,
\* whatever the target state, and every change of such a case is the work of
\* one of the two; the lock refuses nobody on a case that is IN_REVIEW without
\* assignee or in another state, where users of one role are treated alike.
C10_AssignmentLock ==
  /\ [](C10_LockRuleEverywhere /\ \A id \in DOMAIN cases : LockRule(cases[id]))
  /\ [][\A id \in DOMAIN cases :
          (/\ cases[id].state = IN_REVIEW
           /\ cases[id].assigned_officer_id # NoUser
           /\ cases'[id] # cases[id]) =>
            /\ Len(case_events') = Len(case_events) + 1
            /\ case_events'[Len(case_events')].case_id = id
            /\ \/ case_events'[Len(case_events')].actor_id = cases[id].assigned_officer_id
               \/ case_events'[Len(case_events')].actor_role = ADMIN]_vars

\* The case is in review with officer o1, officer o2 has asked for a listed
\* transition and the lock has refused it.
C10_Witness ==
  \E id \in DOMAIN cases :
    /\ cases[id].state = IN_REVIEW
    /\ cases[id].assigned_officer_id = Officer1.id
    /\ last_transition.case_id = id
    /\ last_transition.actor = Officer2.id
    /\ <<last_transition.from_state, last_transition.to_state>> \in ListedTransitions
    /\ ~last_transition.ok
    /\ last_transition.reason = "only the assigned officer or admin"

\* The reasons can_transition gives when it refuses.
DenialReasons ==
  {"transition is not allowed", "user role insufficient",
   "only the assigned officer or admin"}

\* C11: a transition_case call that can_transition denies fails with a reason
\* and leaves the case's state, assigned officer, due_by and updated_at, and
\* the event log, exactly as they were.
C11_DeniedTransitionChangesNothing ==
  [][(last_transition' # last_transition /\ ~last_transition'.ok) =>
        /\ last_transition'.reason \in DenialReasons
        /\ \A id \in DOMAIN cases :
             /\ cases'[id].state = cases[id].state
             /\ cases'[id].assigned_officer_id = cases[id].assigned_officer_id
             /\ cases'[id].due_by = cases[id].due_by
             /\ cases'[id].updated_at = cases[id].updated_at
        /\ DOMAIN cases' = DOMAIN cases
        /\ case_events' = case_events]_vars

\* A call refused by the assignment lock, after transitions have been logged.
C11_Witness ==
  /\ ~last_transition.ok
  /\ last_transition.reason = "only the assigned officer or admin"
  /\ last_transition.case_id \in DOMAIN cases
  /\ cases[last_transition.case_id].state = IN_REVIEW
  /\ Len(case_events) > 1

\* The states a case is closed in: no SLA is configured for them.
ClosedStates ==
  {APPROVED, REJECTED, COMPLETED}

\* C13: after a transition into APPROVED, REJECTED or COMPLETED the case's
\* due_by is unset.
C13_ClosedCaseHasNoDeadline ==
  \A id \in DOMAIN cases :
    cases[id].state \in ClosedStates => cases[id].due_by = NoTime

\* A step in which transition_case succeeded: it logged its event.
Transitioned ==
  /\ Len(case_events') = Len(case_events) + 1
  /\ case_events'[Len(case_events')].action = "STATE_CHANGE"

\* The case as a row with the given assignee.
RowOf(case, assignee) ==
  [case EXCEPT !.assigned_officer_id = assignee]

\* The auto-assign flag is set on SUBMITTED -> IN_REVIEW alone, and
\* transition_case assigns the actor exactly when the flag is set and the
\* case has no assignee, whatever the assignee and the actor.
C14_AssignRuleEverywhere ==
  /\ {pair \in TransitionKeys : transitions_map(pair[1], pair[2]).auto_assign}
       = {<<SUBMITTED, IN_REVIEW>>}
  /\ \A id \in DOMAIN cases, to_state \in CaseState :
       <<cases[id].state, to_state>> \in TransitionKeys =>
         \A assignee \in Assignees, user \in Users :
           transitioned(RowOf(cases[id], assignee), to_state, user).assigned_officer_id
             = IF cases[id].state = SUBMITTED /\ to_state = IN_REVIEW /\ assignee = NoUser
               THEN user.id ELSE assignee

\* C14: a successful transition assigns the acting user to the case exactly
\* when the transition carries the auto-assign flag (SUBMITTED -> IN_REVIEW
\* alone) and the case has no assignee; otherwise the assignee is unchanged.
C14_AutoAssign ==
  /\ []C14_AssignRuleEverywhere
  /\ [][Transitioned =>
          \A id \in DOMAIN cases :
            cases'[id].assigned_officer_id =
              IF /\ id = last_transition'.case_id
                 /\ cases[id].state = SUBMITTED /\ cases'[id].state = IN_REVIEW
                 /\ cases[id].assigned_officer_id = NoUser
              THEN last_transition'.actor
              ELSE cases[id].assigned_officer_id]_vars

\* Officer 1 took the case by SUBMITTED -> IN_REVIEW and is still its assignee
\* after a later transition by somebody else.
C14_Witness ==
  /\ Len(case_events) >= 4
  /\ case_events[2].action = "STATE_CHANGE"
  /\ case_events[2].from_state = SUBMITTED
  /\ case_events[2].to_state = IN_REVIEW
  /\ case_events[2].actor_id = Officer1.id
  /\ case_events[4].actor_id # Officer1.id
  /\ cases[case_events[2].case_id].assigned_officer_id = Officer1.id
  /\ cases[case_events[2].case_id].state # IN_REVIEW

\* The hours the SLA gives a case in each state that has one.
SlaHours ==
  (SUBMITTED :> 24) @@ (IN_REVIEW :> 72) @@ (ESCALATED :> 48) @@ (MATCH_FOUND :> 24)

\* C12: a new case is created in SUBMITTED with due_by = creation time + 24h,
\* and every successful transition into a state with an SLA (IN_REVIEW 72h,
\* ESCALATED 48h, MATCH_FOUND 24h) overwrites due_by with the transition time
\* plus the hours of that state, whatever due_by was before.
C12_DeadlineFollowsState ==
  [][/\ \A id \in DOMAIN cases' \ DOMAIN cases :
          /\ cases'[id].state = SUBMITTED
          /\ cases'[id].due_by = <<cases'[id].created_at + SlaHours[SUBMITTED]>>
     /\ Transitioned =>
          LET id == last_transition'.case_id
          IN  /\ cases'[id].state = last_transition'.to_state
              /\ cases'[id].state \in DOMAIN SlaHours =>
                   cases'[id].due_by = <<now + SlaHours[cases'[id].state]>>]_vars

\* A case created after time 0 whose deadline as MATCH_FOUND is earlier than
\* the one it had IN_REVIEW.
C12_Witness ==
  \E id \in DOMAIN cases :
    /\ cases[id].created_at = TickHours
    /\ cases[id].state = MATCH_FOUND
    /\ cases[id].due_by = <<cases[id].created_at + 48>>
    /\ cases[id].updated_at = cases[id].created_at + 24

\* The cases the claim calls overdue: a deadline is set and lies strictly in
\* the past, and the case is in one of the four open states.
OverdueIds ==
  {id \in DOMAIN cases :
     /\ cases[id].due_by # NoTime
     /\ \E t \in 0..now : t < now /\ cases[id].due_by = <<t>>
     /\ cases[id].state \in {SUBMITTED, IN_REVIEW, ESCALATED, MATCH_FOUND}}

\* The ids of the cases in a list of loaded rows.
IdsOf(rows) ==
  {rows[i].id : i \in DOMAIN rows}

\* get_overdue_cases returns the overdue cases, each once and as stored, and
\* no closed case.
C15_QueryIsExact ==
  /\ IdsOf(get_overdue_cases) = OverdueIds
  /\ Len(get_overdue_cases) = Cardinality(OverdueIds)
  /\ \A i \in DOMAIN get_overdue_cases :
       /\ get_overdue_cases[i] = cases[get_overdue_cases[i].id]
       /\ get_overdue_cases[i].state \notin ClosedStates

\* C15: at any time now, get_overdue_cases returns exactly the cases with
\* due_by set, due_by < now (strictly) and state in SUBMITTED, IN_REVIEW,
\* ESCALATED, MATCH_FOUND; a case in APPROVED, REJECTED or COMPLETED is never
\* returned, even with due_by in the past. The SLA sweep loads that list.
C15_OverdueCases ==
  /\ []C15_QueryIsExact
  /\ [][(automation.running /\ automation.pc[SlaTask] \in {"loop", "sleep"}
         /\ automation'.pc[SlaTask] \in {"escalate", "sleep"}
         /\ automation' # automation) =>
          IdsOf(automation'.overdue_cases) = OverdueIds]_vars

\* The sweep has loaded an overdue MATCH_FOUND case.
C15_Witness ==
  /\ automation.pc[SlaTask] = "escalate"
  /\ Head(automation.overdue_cases).state = MATCH_FOUND
  /\ Head(automation.overdue_cases).id \in OverdueIds

\* A step in which escalate_overdue_case returned for the first case of the
\* sweep's batch.
Escalated ==
  /\ automation.pc[SlaTask] = "escalate"
  /\ automation'.overdue_cases = Tail(automation.overdue_cases)
  /\ automation'.returned.case_id = Head(automation.overdue_cases).id

\* C16: escalate_overdue_case called with the system user (an admin) on a
\* case in SUBMITTED, IN_REVIEW (assigned or not) or MATCH_FOUND returns true,
\* and afterwards the case is ESCALATED with due_by = now + 48h and one new
\* STATE_CHANGE event; can_transition never refuses it.
C16_EscalateSucceeds ==
  [][(Escalated /\ Head(automation.overdue_cases).state \in {SUBMITTED, IN_REVIEW, MATCH_FOUND}) =>
        LET id == Head(automation.overdue_cases).id
        IN  /\ automation'.returned.escalated
            /\ last_transition'.ok
            /\ cases'[id].state = ESCALATED
            /\ cases'[id].due_by = <<now + 48>>
            /\ Len(case_events') = Len(case_events) + 1
            /\ SubSeq(case_events', 1, Len(case_events)) = case_events
            /\ case_events'[Len(case_events')].action = "STATE_CHANGE"
            /\ case_events'[Len(case_events')].case_id = id
            /\ case_events'[Len(case_events')].to_state = ESCALATED]_vars

\* The scheduler runs and the case is overdue in the given state.
OverdueIn(id, state) ==
  /\ automation.running
  /\ id \in OverdueIds
  /\ cases[id].state = state

\* C17: while the scheduler runs and the SLA sweep is scheduled fairly, a case
\* that is overdue in SUBMITTED, IN_REVIEW or MATCH_FOUND does not stay in
\* that state: unless another actor moves it, the sweep moves it to ESCALATED.
C17_OverdueIsEscalated ==
  \A state \in {SUBMITTED, IN_REVIEW, MATCH_FOUND} :
    OverdueIn(1, state) ~>
      (cases[1].state = ESCALATED \/ (last_transition.ok /\ last_transition.from_state = state
                                       /\ last_transition.actor # SystemUser.id))

\* stop() has been called after start(): the tasks exist, the flag is down.
Stopped ==
  /\ ~automation.running
  /\ \A t \in Tasks : automation.pc[t] # "not_started"

\* A task inside an iteration.
InFlight(t) ==
  automation.pc[t] \in {"escalate", "query"}

\* Once stopped, a task that is between iterations stays there or ends, and
\* what an iteration loads or returns stays as the last iteration left it.
C18_NoNewIteration ==
  [][Stopped =>
       /\ \A t \in Tasks :
            ~InFlight(t) => automation'.pc[t] \in {automation.pc[t], "done"}
       /\ ~InFlight(SlaTask) =>
            /\ automation'.overdue_cases = automation.overdue_cases
            /\ automation'.returned = automation.returned
       /\ ~InFlight(AssignmentTask) =>
            automation'.unassigned_cases = automation.unassigned_cases]_vars

\* Once stopped, an iteration in flight goes on as it would have: the sweep
\* calls escalate for one case of its batch after the other and sleeps after
\* the last, the assignment task assigns every case it loaded.
C18_InFlightGoesOn ==
  [][Stopped =>
       /\ (InFlight(SlaTask)
           /\ <<automation'.pc[SlaTask], automation'.overdue_cases>>
                # <<automation.pc[SlaTask], automation.overdue_cases>>) =>
            /\ Escalated
            /\ automation'.pc[SlaTask] =
                 IF automation'.overdue_cases = <<>> THEN "sleep" ELSE "escalate"
       /\ (InFlight(AssignmentTask)
           /\ automation'.pc[AssignmentTask] # automation.pc[AssignmentTask]) =>
            /\ automation'.pc[AssignmentTask] = "sleep"
            /\ \A i \in DOMAIN automation.unassigned_cases :
                 cases'[automation.unassigned_cases[i].id].assigned_officer_id # NoUser
       /\ (InFlight(EscalationTask)
           /\ automation'.pc[EscalationTask] # automation.pc[EscalationTask]) =>
            automation'.pc[EscalationTask] = "sleep"]_vars

\* C18: after stop() (and no further start()) no sweep begins a new
\* iteration, every iteration in flight runs to completion, and each of the
\* three loops eventually terminates.
C18_StopTerminates ==
  /\ C18_NoNewIteration
  /\ C18_InFlightGoesOn
  /\ \A t \in Tasks : (Stopped /\ InFlight(t)) ~> (automation.pc[t] = "sleep")
  /\ Stopped ~> [](\A t \in Tasks : automation.pc[t] = "done")

\* stop() was called while the sweep had a batch to escalate and the
\* assignment task had loaded its cases.
C18_Witness ==
  /\ Stopped
  /\ automation.pc[SlaTask] = "escalate"
  /\ automation.pc[AssignmentTask] = "query"
  /\ automation.unassigned_cases # <<>>

\* C19: URL normalization is idempotent: normalizing what normalize_url
\* returned gives it back, for URLs without a scheme, with trailing slashes,
\* with whitespace before a trailing slash, and with query strings.
C19_NormalizeIdempotent ==
  [][(normalizer # NoNormalization /\ normalizer'.url = normalizer.url_normalized) =>
        normalizer'.url_normalized = normalizer.url_normalized]_vars

\* C20: two URLs that differ only by tracking parameters, fragment, letter
\* case or a trailing slash on the path (the root path included) normalize to
\* the same canonical form and the same url_hash.
C20_SpellingsNormalizeAlike ==
  [][\A base \in UrlBases :
       (normalizer.url \in Spellings(base) /\ normalizer'.url \in Spellings(base)) =>
          /\ normalizer'.url_normalized = normalizer.url_normalized
          /\ normalizer'.url_hash = normalizer.url_hash]_vars

\* A URL that is not blank, and a file hash of exactly 64 hexadecimal digits
\* once trimmed and in lower case.
NonBlank(url) ==
  \E i \in DOMAIN url : url[i] # " "

ValidFileHash(file_hash) ==
  \E before \in 0..Len(file_hash) :
    /\ before + HashLen <= Len(file_hash)
    /\ \A i \in DOMAIN file_hash :
         IF i <= before \/ i > before + HashLen
         THEN file_hash[i] = " "
         ELSE LowerChar(file_hash[i]) \in HexDigits

\* What the claim says of one call of process_submission.
ContentRuleWith(valid, url, processed) ==
  /\ processed.has_content <=> (NonBlank(url) \/ valid)
  /\ ~valid => processed.file_hash = <<>>
  /\ valid => Len(processed.file_hash) = HashLen
  /\ processed.has_content => (processed.url_hash # <<>> \/ processed.file_hash # <<>>)

ContentRule(url, file_hash, processed) ==
  ContentRuleWith(ValidFileHash(file_hash), url, processed)

\* C21: process_submission reports has_content iff a non-blank URL or a valid
\* 64-hex file hash was supplied; an invalid file hash comes back as the empty
\* string and never makes has_content true on its own; with has_content one of
\* url_hash and file_hash is non-empty, so every created Case has a non-empty
\* url_hash or file_hash.
C21_HasContent ==
  /\ normalizer # NoNormalization =>
       ContentRule(normalizer.url, normalizer.file_hash, normalizer.result)
  /\ \A id \in DOMAIN cases : cases[id].url_hash # <<>> \/ cases[id].file_hash # <<>>
  /\ \A p \in Requests :
       pc[p] # "idle" =>
         /\ ContentRule(req[p].url, req[p].file_hash,
                        ProcessedTable[[url |-> req[p].url, file_hash |-> req[p].file_hash]])
         /\ pc[p] # "done" =>
              ProcessedTable[[url |-> req[p].url, file_hash |-> req[p].file_hash]].has_content

\* process_submission was called with a blank URL and an invalid file hash,
\* and a case was created from a URL sent with an invalid file hash.
C21_Witness ==
  /\ normalizer # NoNormalization
  /\ normalizer.url = BlankUrl
  /\ normalizer.file_hash = FileBad
  /\ ~normalizer.result.has_content
  /\ \E id \in DOMAIN cases : cases[id].url_hash # <<>> /\ cases[id].file_hash = <<>>
  /\ \E i \in DOMAIN calls : calls[i].is_new /\ calls[i].file_hash = <<>>
                             /\ calls[i].url = UrlA

\* A commit that changes a Case row or adds a CaseEvent.
TransitionCommitted ==
  cases' # cases \/ case_events' # case_events

\* The role of the user with this id.
RoleOfActor(id) ==
  IF id = SystemUser.id THEN SystemUser.role ELSE (CHOOSE u \in Users : u.id = id).role

\* The event added in this step is the STATE_CHANGE event of the transition
\* just made, and the case row moved from the event's from_state to its
\* to_state in the same step.
StateChangeRecorded(event) ==
  /\ event.action = "STATE_CHANGE"
  /\ event.case_id = last_transition'.case_id
  /\ event.actor_id = last_transition'.actor
  /\ event.actor_role = RoleOfActor(event.actor_id)
  /\ event.from_state = cases[event.case_id].state
  /\ event.to_state = cases'[event.case_id].state
  /\ event.to_state = last_transition'.to_state
  /\ \A id \in DOMAIN cases : id # event.case_id => cases'[id] = cases[id]

\* C22: every successful transition appends exactly one STATE_CHANGE event for
\* the case, recording the acting user, the actor's role, from_state = the
\* state before the transition and to_state = the state after it; state,
\* assignee, deadline and event become visible together in one commit.
C22_OneStateChangeEvent ==
  [][ TransitionCommitted =>
        /\ last_transition'.ok
        /\ DOMAIN cases' = DOMAIN cases
        /\ Len(case_events') = Len(case_events) + 1
        /\ SubSeq(case_events', 1, Len(case_events)) = case_events
        /\ StateChangeRecorded(case_events'[Len(case_events')]) ]_vars

\* The states without an escalation target.
NoTargetStates ==
  {ESCALATED, APPROVED, REJECTED, COMPLETED}

\* escalate_overdue_case finds no escalation target for a stored case in one
\* of these states.
C23_NoTargetForStored ==
  \A id \in DOMAIN cases :
    cases[id].state \in NoTargetStates => escalation_state(cases[id]) = NoState

\* C23: escalate on a case whose current state has no escalation target
\* (ESCALATED, APPROVED, REJECTED, COMPLETED) returns false and changes neither
\* the case nor the event log; an overdue ESCALATED case is returned by every
\* SLA sweep's overdue query and is never changed by the sweep.
C23_NoTargetNoChange ==
  /\ []C23_NoTargetForStored
  /\ [][(Escalated /\ Head(automation.overdue_cases).state \in NoTargetStates) =>
          /\ ~automation'.returned.escalated
          /\ cases' = cases
          /\ case_events' = case_events]_vars
  /\ [][(automation.running /\ automation.pc[SlaTask] \in {"loop", "sleep"}
         /\ automation'.pc[SlaTask] \in {"escalate", "sleep"}
         /\ automation' # automation) =>
          \A id \in OverdueIds :
            cases[id].state = ESCALATED =>
              \E i \in DOMAIN automation'.overdue_cases :
                automation'.overdue_cases[i] = cases[id]]_vars

\* escalate_overdue_case returned false for an overdue ESCALATED case of the
\* batch, and the case and the log are as the officer's transition left them.
C23_Witness ==
  /\ automation.pc[SlaTask] = "sleep"
  /\ automation.returned = [case_id |-> 1, escalated |-> FALSE]
  /\ cases[1].state = ESCALATED
  /\ 1 \in OverdueIds
  /\ Len(case_events) = 2
  /\ case_events[2].actor_id = Officer1.id
  /\ last_transition.actor = Officer1.id

\* A step in which escalate_overdue_case, called for the first case of the
\* batch, did not escalate it: it returned false or raised.
NotEscalated ==
  /\ Escalated
  /\ ~automation'.returned.escalated

\* The cases the sweep's iteration has still to attempt.
Remaining ==
  IF automation.pc[SlaTask] = "escalate" THEN automation.overdue_cases ELSE <<>>

Raised(t) ==
  /\ ~automation.failed[t]
  /\ automation'.failed[t]

\* No loop has ended while the service is running.
C25_NoLoopEnded ==
  \A t \in Tasks : automation.pc[t] = "done" => ~automation.running

\* An exception in an iteration of task t sends t to its sleep and leaves
\* the other tasks and the running flag alone.
C25_RaiseKeepsLoops ==
  \A t \in Tasks :
    Raised(t) =>
      /\ automation'.pc[t] = "sleep"
      /\ automation'.running = automation.running
      /\ \A u \in Tasks \ {t} : automation'.pc[u] = automation.pc[u]

\* C25: an exception raised inside one iteration of any of the three sweeps
\* never terminates that sweep's loop nor the others; while running stays
\* true, the sweep runs another iteration after its interval.
C25_LoopsSurviveExceptions ==
  /\ []C25_NoLoopEnded
  /\ [][C25_RaiseKeepsLoops]_vars
  /\ \A t \in Tasks :
       automation.failed[t] ~> (~automation.failed[t] \/ ~automation.running)

\* The iterations of all three tasks have raised, the SLA sweep's in the
\* middle of its batch, and the SLA sweep is in a later iteration.
C25_Witness ==
  /\ automation.running
  /\ automation.failed[EscalationTask]
  /\ automation.failed[AssignmentTask]
  /\ ~automation.failed[SlaTask]
  /\ automation.pc[SlaTask] = "escalate"
  /\ automation.pc[EscalationTask] = "sleep"
  /\ automation.pc[AssignmentTask] = "sleep"

\* The iteration of task t completes in this step, after stop() was called
\* during it.
CompletesStopped(t) ==
  /\ automation.pc[t] \in {"escalate", "query"}
  /\ automation'.pc[t] \notin {"escalate", "query"}
  /\ ~automation.running

\* C26: each loop checks running before sleeping as well as before an
\* iteration: if stop() is called during an iteration, the loop exits when
\* that iteration completes, without another sleep.
C26_NoSleepAfterStop ==
  [][\A t \in Tasks : CompletesStopped(t) => automation'.pc[t] = "done"]_vars

\* A step in which the assignment sweep's iteration commits.
AssignmentCommitted ==
  /\ automation.pc[AssignmentTask] = "query"
  /\ automation'.pc[AssignmentTask] = "sleep"

HasOfficerRole(user) ==
  user.role = OFFICER

\* The officer accounts, in the order of the table.
OfficerAccounts ==
  SelectSeq(users, HasOfficerRole)

\* How many cases of the list the step has given to the officer.
GivenTo(officer) ==
  Cardinality({i \in DOMAIN automation.unassigned_cases :
                 cases'[automation.unassigned_cases[i].id].assigned_officer_id = officer.id})

\* The round-robin rule for the iteration that commits in this step, on the
\* list c_0..c_(n-1) it loaded.
RoundRobin ==
  LET list == automation.unassigned_cases
      k    == Len(OfficerAccounts)
  IN  /\ case_events' = case_events
      /\ DOMAIN cases' = DOMAIN cases
      /\ \A id \in DOMAIN cases : id \notin IdsOf(list) => cases'[id] = cases[id]
      /\ k = 0 => cases' = cases
      /\ k >= 1 =>
           /\ \A i \in 0..(Len(list) - 1) :
                /\ cases'[list[i + 1].id].assigned_officer_id = OfficerAccounts[(i % k) + 1].id
                /\ cases'[list[i + 1].id].state = cases[list[i + 1].id].state
                /\ cases'[list[i + 1].id].due_by = cases[list[i + 1].id].due_by
           /\ \A a, b \in 1..k :
                GivenTo(OfficerAccounts[a]) <= GivenTo(OfficerAccounts[b]) + 1

\* The list an iteration loads: the IN_REVIEW cases without an assignee, each
\* once, in the order of the table.
ListLoaded ==
  (automation.pc[AssignmentTask] \in {"loop", "sleep"}
   /\ automation'.pc[AssignmentTask] = "query") =>
     LET list == automation'.unassigned_cases
     IN  /\ IdsOf(list) = {id \in DOMAIN cases :
                             cases[id].state = IN_REVIEW /\ cases[id].assigned_officer_id = NoUser}
         /\ \A i, j \in DOMAIN list : i < j => list[i].id < list[j].id
         /\ \A i \in DOMAIN list : list[i] = cases[list[i].id]

\* C27: in one assignment-sweep iteration with k >= 1 officer accounts and the
\* list c_0..c_(n-1) of IN_REVIEW cases without an assignee, case c_i is
\* assigned officer[i mod k] (per-officer counts within the iteration differ by
\* at most 1); cases that are not IN_REVIEW or already have an assignee are
\* untouched, the state and due_by of the assigned cases are unchanged, and
\* with zero officers nothing is changed.
C27_RoundRobinAssignment ==
  [][ListLoaded /\ (AssignmentCommitted => RoundRobin)]_vars

\* With two officers the sweep gave cases 1 and 3 to officer 1 and case 2 to
\* officer 2, some time after they were sent back into review.
C27_Witness ==
  /\ automation.pc[AssignmentTask] = "sleep"
  /\ Len(OfficerAccounts) = 2
  /\ cases[1].assigned_officer_id = "o1"
  /\ cases[2].assigned_officer_id = "o2"
  /\ cases[3].assigned_officer_id = "o1"
  /\ \A id \in 1..3 : cases[id].state = IN_REVIEW /\ cases[id].updated_at = now
  /\ now > 0

\* A step of the stale-escalation task.
StaleSweepStep ==
  \/ automation'.pc[EscalationTask] # automation.pc[EscalationTask]
  \/ automation'.stale_escalated # automation.stale_escalated

\* C28: the stale-escalation sweep is purely observational: no iteration of it
\* changes any field of any Case or appends any CaseEvent.
C28_StaleSweepObserves ==
  [][(StaleSweepStep /\ automation.pc[EscalationTask] # "not_started") =>
        cases' = cases /\ case_events' = case_events]_vars

\* An iteration has found the case escalated more than 48 hours ago and has
\* completed; the case is as the admin's transition left it.
C28_Witness ==
  /\ automation.pc[EscalationTask] = "sleep"
  /\ Len(automation.stale_escalated) = 1
  /\ automation.stale_escalated[1] = cases[1]
  /\ cases[1].state = ESCALATED
  /\ cases[1].updated_at + StaleEscalatedHours < now
  /\ Len(case_events) = 2

\* The target states get_available_transitions lists.
TargetsOf(listing) ==
  {listing[i].to_state : i \in DOMAIN listing}

ListedTargets(case, user) ==
  TargetsOf(get_available_transitions(case, user))

\* The listing names exactly the targets can_transition allows.
AgreesWith(targets, case, user) ==
  \A t \in CaseState : t \in targets <=> can_transition(case, t, user).allowed

\* C30: get_available_transitions agrees with can_transition: for every case,
\* every actor and every target state t, t is listed among the available
\* transitions iff can_transition(case, t, actor) returns true.
C30_ListingAgrees ==
  \A id \in DOMAIN cases, user \in Users \cup {SystemUser} :
    AgreesWith(ListedTargets(cases[id], user), cases[id], user)

\* The case is in review with officer 1: officer 1 is offered the four
\* transitions out of IN_REVIEW, officer 2 none.
C30_Witness ==
  /\ cases[1].state = IN_REVIEW
  /\ cases[1].assigned_officer_id = Officer1.id
  /\ ListedTargets(cases[1], Officer1) = {APPROVED, REJECTED, MATCH_FOUND, ESCALATED}
  /\ get_available_transitions(cases[1], Officer2) = <<>>
  /\ ~can_transition(cases[1], APPROVED, Officer2).allowed
  /\ last_transition.ok

\* The rows of the system user in table users.
SystemRows ==
  {i \in DOMAIN users : users[i].id = SystemUser.id}

\* Task t leaves ensure_system_user's creation in this step.
CreationAttempted(t) ==
  /\ automation.pc[t] = "create_user"
  /\ automation'.pc[t] # "create_user"

\* C29: the system actor is created at most once: across all sweeps and
\* iterations, including the three sweeps starting concurrently when no system
\* user exists yet, at most one creation of the system user is attempted, no
\* sweep iteration fails because of it, and every sweep uses the same admin
\* identity afterwards.
C29_SystemUserOnce ==
  /\ [](Cardinality(SystemRows) <= 1)
  /\ [](automation.system_user # NoUser =>
          /\ automation.system_user = SystemUser.id
          /\ \E i \in SystemRows : users[i].role = ADMIN)
  /\ [][\A t \in Tasks :
          CreationAttempted(t) =>
            /\ SystemRows = {}
            /\ ~automation'.failed[t]]_vars

\* ------------------------------------------------------------------------
\* Idempotency keys under concurrent submissions
\* ------------------------------------------------------------------------

IdempotencyKeysUsed ==
  {r.idempotency_key : r \in DedupRequests} \ {""}

BindingsOf(k) ==
  {b \in idempotency_keys : b.key = k}

\* A create_case call with key k that has content and has run to its end.
CompletedWithKey(p, k) ==
  /\ pc[p] = "done"
  /\ req[p].idempotency_key = k
  /\ processed_submission(req[p]).has_content

\* The key has at most one binding, and every completed submission carrying
\* it has returned the bound case.
C31_KeyReturnsBinding ==
  \A k \in IdempotencyKeysUsed :
    /\ Cardinality(BindingsOf(k)) <= 1
    /\ \A p \in Requests :
         CompletedWithKey(p, k) =>
           /\ result[p].error = ""
           /\ BindingsOf(k) = {[key |-> k, case_id |-> result[p].case_id]}

\* A binding that exists is still there, unchanged, after every step.
C31_BindingKept ==
  \A b \in idempotency_keys : BindingsOf(b.key)' = {b}

\* C31: for every idempotency key, under any interleaving of the submissions
\* that carry it (with equal or different content), at most one binding
\* exists, the binding never changes once created, and every one of those
\* submissions completes returning the bound case.
C31_OneBindingPerKey ==
  []C31_KeyReturnsBinding /\ [][C31_BindingKept]_vars

\* The part of C31 about the table alone: at most one binding per key, never
\* changed.
C31_BindingOnceForAll ==
  [](\A k \in IdempotencyKeysUsed : Cardinality(BindingsOf(k)) <= 1) /\ [][C31_BindingKept]_vars

\* ------------------------------------------------------------------------
\* The Case table and the dedup index
\* ------------------------------------------------------------------------

\* A DedupIndex row for url_hash h of case id, carrying that hash alone.
UrlRow(id, h) ==
  [case_id |-> id, url_hash |-> h, file_hash |-> <<>>]

FileRow(id, h) ==
  [case_id |-> id, url_hash |-> <<>>, file_hash |-> h]

\* Every hash a content of the model has.
AllUrlHashes ==
  {UrlHashes[u] : u \in DOMAIN UrlHashes} \ {<<>>}

AllFileHashes ==
  {FileHashes[f] : f \in DOMAIN FileHashes} \ {<<>>}

\* The rows the index must hold for the Case table as it is.
IndexOfCases ==
  {UrlRow(id, cases[id].url_hash) : id \in {i \in DOMAIN cases : cases[i].url_hash # <<>>}}
  \cup
  {FileRow(id, cases[id].file_hash) : id \in {i \in DOMAIN cases : cases[i].file_hash # <<>>}}

\* C32: in every state under any interleaving of submissions (also of
\* submissions that share only one of their two hashes), no two Cases share a
\* url_hash or a file_hash, and for every hash a DedupIndex row carrying it
\* exists iff exactly one Case carries it; that row references that Case and
\* carries only that one hash.
C32_IndexAgreesWithCases ==
  /\ \A h \in AllUrlHashes :
       /\ Cardinality(CasesWithUrlHash(h)) <= 1
       /\ (DedupRowsWithUrlHash(h) # {}) <=> (Cardinality(CasesWithUrlHash(h)) = 1)
       /\ \A d \in DedupRowsWithUrlHash(h) :
            d.file_hash = <<>> /\ CasesWithUrlHash(h) = {d.case_id}
  /\ \A h \in AllFileHashes :
       /\ Cardinality(CasesWithFileHash(h)) <= 1
       /\ (DedupRowsWithFileHash(h) # {}) <=> (Cardinality(CasesWithFileHash(h)) = 1)
       /\ \A d \in DedupRowsWithFileHash(h) :
            d.url_hash = <<>> /\ CasesWithFileHash(h) = {d.case_id}
  /\ dedup_index = IndexOfCases

\* A case with both hashes is committed with its two rows, and two finished
\* submissions each share exactly one of the two hashes with it.
C32_Witness ==
  /\ \A q \in Requests : pc[q] = "done"
  /\ \E id \in DOMAIN cases :
       /\ cases[id].url_hash # <<>> /\ cases[id].file_hash # <<>>
       /\ UrlRow(id, cases[id].url_hash) \in dedup_index
       /\ FileRow(id, cases[id].file_hash) \in dedup_index
       /\ \E p, q \in Requests :
            /\ UrlHashOf(p) = cases[id].url_hash /\ FileHashOf(p) = <<>>
            /\ FileHashOf(q) = cases[id].file_hash /\ UrlHashOf(q) = <<>>

\* ------------------------------------------------------------------------
\* The audit log of submissions
\* ------------------------------------------------------------------------

\* The create_case call in slot p returns a case with this step.
ReturnsCase(p) ==
  /\ pc[p] # "done"
  /\ pc'[p] = "done"
  /\ result'[p].error = ""

\* The event a returned submission is to leave on its case.
SubmissionLogged(p) ==
  /\ Len(case_events') = Len(case_events) + 1
  /\ LET event == case_events'[Len(case_events')]
     IN  /\ event.case_id = result'[p].case_id
         /\ event.actor_id = req[p].submitter.id
         /\ event.action = IF result'[p].is_new THEN "submitted" ELSE "linked_submission"

\* The events there are stay as they are, in their order.
AppendOnly ==
  /\ Len(case_events') >= Len(case_events)
  /\ SubSeq(case_events', 1, Len(case_events)) = case_events

\* C33: the audit log is append-only and complete for submissions: every
\* create_case call that returns a case (new case, content duplicate or
\* idempotency-key replay) appends exactly one CaseEvent to that case,
\* 'submitted' for a new case and 'linked_submission' otherwise, and no step
\* modifies or removes an event.
C33_AuditLogComplete ==
  [][AppendOnly /\ \A p \in Requests : ReturnsCase(p) => SubmissionLogged(p)]_vars

\* The part of C33 about the events there are: no step modifies or removes
\* one.
C33_AppendOnlyLog ==
  [][AppendOnly]_vars

\* ------------------------------------------------------------------------
\* Who changes a case row
\* ------------------------------------------------------------------------

\* The fields the state machine owns.
OwnedFields(case) ==
  <<case.state, case.assigned_officer_id, case.due_by>>

\* The step appends one STATE_CHANGE event for case id that leads to the
\* state the row has afterwards.
TransitionRecorded(id) ==
  /\ Len(case_events') = Len(case_events) + 1
  /\ LET event == case_events'[Len(case_events')]
     IN  /\ event.action = "STATE_CHANGE"
         /\ event.case_id = id
         /\ event.to_state = cases'[id].state

\* C34: after its creation a case's state, assigned_officer_id and due_by are
\* changed only by state-machine transitions: every step that changes one of
\* the three fields of a case is a successful transition that appends a
\* STATE_CHANGE event for that case; no sweep and no submission changes them
\* any other way.
C34_OnlyTransitionsChangeCase ==
  [][ \A id \in DOMAIN cases :
        (id \in DOMAIN cases' /\ OwnedFields(cases'[id]) # OwnedFields(cases[id]))
          => TransitionRecorded(id) ]_vars

\* ------------------------------------------------------------------------
\* Contents of different kinds
\* ------------------------------------------------------------------------

\* An answered create_case call that carried a URL and no file hash.
UrlOnly(call) ==
  call.url_hash # <<>> /\ call.file_hash = <<>>

FileOnly(call) ==
  call.file_hash # <<>> /\ call.url_hash = <<>>

\* The call is the first one that returned its case.
FirstOfItsCase(i) ==
  \A j \in 1..(i - 1) : calls[j].case_id # calls[i].case_id

\* The call ended without error on a case that carries the call's one hash,
\* a new case exactly when no earlier call returned it.
OwnCase(i) ==
  /\ calls[i].error = ""
  /\ calls[i].case_id \in DOMAIN cases
  /\ UrlOnly(calls[i]) => cases[calls[i].case_id].url_hash = calls[i].url_hash
  /\ FileOnly(calls[i]) => cases[calls[i].case_id].file_hash = calls[i].file_hash
  /\ calls[i].is_new <=> FirstOfItsCase(i)

\* C35: content of different kinds never collides: a URL-only submission is
\* never treated as a duplicate of a case that has only a file hash, and a
\* file-hash-only submission never as a duplicate of a case that has only a
\* URL; each gets a case of its own content, created by the first submission
\* of that content.
C35_KindsNeverCollide ==
  /\ \A i \in 1..Len(calls) :
       (UrlOnly(calls[i]) \/ FileOnly(calls[i])) => OwnCase(i)
  /\ \A i, j \in 1..Len(calls) :
       (UrlOnly(calls[i]) /\ FileOnly(calls[j])) =>
         /\ calls[i].case_id # calls[j].case_id
         /\ cases[calls[j].case_id].url_hash = <<>>
         /\ cases[calls[i].case_id].file_hash = <<>>

\* A URL-only submission was answered after a file-hash-only one and got a
\* new case of its own; a later submission of the file hash was linked to
\* the first case.
C35_Witness ==
  /\ Len(calls) = 3
  /\ FileOnly(calls[1]) /\ calls[1].is_new
  /\ UrlOnly(calls[2]) /\ calls[2].is_new
  /\ FileOnly(calls[3]) /\ ~calls[3].is_new
  /\ calls[3].case_id = calls[1].case_id

\* ------------------------------------------------------------------------
\* Transitions racing with the SLA sweep
\* ------------------------------------------------------------------------

\* The state stored for case id changes with this step.
StateChanges(id) ==
  id \in DOMAIN cases' /\ cases'[id].state # cases[id].state

\* C36: under any interleaving of API transitions and SLA-sweep escalations
\* on the same case, every change of the case's persisted state goes from the
\* state actually stored to a target listed for that state in the transition
\* table; a case whose stored state is COMPLETED never changes state again.
C36_StoredStateFollowsTable ==
  [][ \A id \in DOMAIN cases :
        /\ StateChanges(id) => <<cases[id].state, cases'[id].state>> \in TransitionKeys
        /\ cases[id].state = COMPLETED => ~StateChanges(id) ]_vars

\* The sweep's escalate_overdue_case call of this step escalated the case.
SweepEscalated ==
  Escalated /\ automation'.returned.escalated

\* C37: the SLA sweep escalates a case only if the case is overdue, as it is
\* stored, at the moment of the escalation: when another actor has
\* transitioned the case (resetting its deadline) between the sweep's overdue
\* query and its escalate call, the sweep does not escalate that case.
C37_EscalatesOnlyOverdue ==
  [][ SweepEscalated => overdue_where(cases[Head(automation.overdue_cases).id]) ]_vars

\* ------------------------------------------------------------------------
\* The chain of state changes
\* ------------------------------------------------------------------------

\* The state a chain of STATE_CHANGE events leads to from `state`, NoState
\* when an event does not start where the one before it ended.
RECURSIVE ChainEnd(_, _)
ChainEnd(events, state) ==
  IF events = <<>> THEN state
  ELSE IF Head(events).from_state # state THEN NoState
  ELSE ChainEnd(Tail(events), Head(events).to_state)

\* The STATE_CHANGE events of case id in commit order.
StateChangesOf(id) ==
  SelectSeq(case_events, LAMBDA e : e.case_id = id /\ e.action = "STATE_CHANGE")

\* C38: for every case, in every reachable state, the STATE_CHANGE events in
\* commit order form a chain: the first has from_state SUBMITTED, each later
\* one starts where the one before it ended, and the last one ends in the
\* case's current state (a case without STATE_CHANGE event is SUBMITTED).
C38_StateChangesFormChain ==
  \A id \in DOMAIN cases :
    ChainEnd(StateChangesOf(id), SUBMITTED) = cases[id].state

\* ------------------------------------------------------------------------
\* The assignee of a case
\* ------------------------------------------------------------------------

\* C39: assigned_officer_id is write-once: once a case has an assignee, no
\* transition, escalation, sweep or submission changes or clears it, under
\* any interleaving of the operations.
C39_AssigneeWriteOnce ==
  [][ \A id \in DOMAIN cases :
        cases[id].assigned_officer_id # NoUser =>
          /\ id \in DOMAIN cases'
          /\ cases'[id].assigned_officer_id = cases[id].assigned_officer_id ]_vars

\* ------------------------------------------------------------------------
\* One loop per sweep kind
\* ------------------------------------------------------------------------

\* A task that has been created and has not ended.
Alive(at) ==
  at \notin {"not_started", "done"}

\* A task of kind t created by a start() call after call g is alive.
Superseded(g, t) ==
  \/ Alive(automation.pc[t])
  \/ \E h \in (g + 1)..Len(automation.earlier) : Alive(automation.earlier[h].pc[t])

\* The loop of kind t created by start() call g passes its
\* `while self.running` test with this step and goes on.
Continues(g, t) ==
  /\ automation.earlier[g].pc[t] \in {"loop", "sleep"}
  /\ automation'.earlier[g].pc[t] \in {"sleep", "query"}
  /\ automation'.earlier[g].pc[t] # automation.earlier[g].pc[t]

\* C40: at most one loop per sweep kind is ever active: for any sequence of
\* start() and stop() calls, also stop() followed by start() while the old
\* loops are in their sleep, a loop never goes on running beside a loop of
\* its kind created by a later start(), and a start() while the service is
\* running creates no task.
C40_OneLoopPerKind ==
  [][ /\ automation.running => Len(automation'.earlier) = Len(automation.earlier)
      /\ \A g \in 1..Len(automation.earlier), t \in Tasks :
           Continues(g, t) => ~Superseded(g, t) ]_vars

====
